---- MODULE Spec2Model ----
(***************************************************************************)
(* State-machine model of the Endpoints Telegram bot: the message parser,  *)
(* the encrypted session store, the pending-file holder and the handlers   *)
(* that route text messages, uploads and button presses.                   *)
(*                                                                         *)
(* A string is a tuple of one-character strings, so that trim, prefix      *)
(* tests, slicing and concatenation are computed as the code computes      *)
(* them.  An optional value is a tuple of length 0 (absent) or 1.          *)
(***************************************************************************)
EXTENDS Naturals, Sequences, FiniteSets, TLC

VARIABLES store, pending, tasks, now, uploads, argument, returned

vars == <<store, pending, tasks, now, uploads, argument, returned>>

----------------------------------------------------------------------------
(* Bounds of the model *)

\* the clock takes the values 0..MaxTime
MaxTime == 1
\* number of distinct initialisation vectors randomBytes can draw
NumIvs == 2
\* number of update handlers that can be in flight at once (webhook mode)
MaxInflight == 2
\* number of uploads that are put into the pending-file holder
MaxUploads == 2
\* length of the texts, and of the text after a prefix, given to the parser
MaxBody == 4
\* number of times sanitize is applied in a row
MaxCalls == 2

----------------------------------------------------------------------------
(* Optional values *)

None == <<>>
Some(v) == <<v>>
IsSome(o) == Len(o) = 1
Get(o) == o[1]

----------------------------------------------------------------------------
(* Strings *)

Upper == <<"A","B","C","D","E","F","G","H","I","J","K","L","M",
           "N","O","P","Q","R","S","T","U","V","W","X","Y","Z">>
LowerCs == <<"a","b","c","d","e","f","g","h","i","j","k","l","m",
             "n","o","p","q","r","s","t","u","v","w","x","y","z">>

\* the white space String.prototype.trim and the regular expression \s remove
IsSpace(c) == c \in {" ", "\n", "\t", "\r"}

LowerChar(c) ==
    IF \E i \in 1..26 : Upper[i] = c
    THEN LowerCs[CHOOSE i \in 1..26 : Upper[i] = c]
    ELSE c

toLowerCase(s) == [i \in 1..Len(s) |-> LowerChar(s[i])]

\* s.slice(n) with n counted from 0
SliceFrom(s, n) == IF n >= Len(s) THEN <<>> ELSE SubSeq(s, n + 1, Len(s))
\* s.slice(0, n)
SliceTo(s, n) == IF n >= Len(s) THEN s ELSE SubSeq(s, 1, n)

startsWith(s, p) == Len(s) >= Len(p) /\ SubSeq(s, 1, Len(p)) = p

RECURSIVE trimStart(_)
trimStart(s) ==
    IF s # <<>> /\ IsSpace(Head(s)) THEN trimStart(Tail(s)) ELSE s

RECURSIVE trimEnd(_)
trimEnd(s) ==
    IF s # <<>> /\ IsSpace(s[Len(s)]) THEN trimEnd(SubSeq(s, 1, Len(s) - 1)) ELSE s

trim(s) == trimEnd(trimStart(s))

\* index of the first "\n" of s, or Len(s) + 1
NewlineAt(s, i) ==
    LET found == {j \in i..Len(s) : s[j] = "\n"}
    IN  IF found # {} THEN CHOOSE j \in found : \A k \in found : j <= k
        ELSE IF i > Len(s) THEN i ELSE Len(s) + 1

NotAngle(c) == c \notin {"<", ">"}

\* input.replace(/[<>]/g, '')
stripAngles(s) == SelectSeq(s, NotAngle)

MAX_SANITIZED == 1000

\* a sanitize that trims before it removes the angle brackets
sanitize_TrimFirst(input) == SliceTo(stripAngles(trim(input)), MAX_SANITIZED)

sanitize(input) == SliceTo(trim(stripAngles(input)), MAX_SANITIZED)

----------------------------------------------------------------------------
(* parser.ts *)

P_scan == <<"s","c","a","n",":">>
P_text == <<"t","e","x","t",":">>
P_get  == <<"g","e","t",":">>
P_file == <<"f","i","l","e",":">>
W_list == <<"l","i","s","t">>
W_slashList == <<"/","l","i","s","t">>

ParsedOf(type, prompt, content, path) ==
    [type |-> type, prompt |-> prompt, content |-> content, path |-> path]

\* index of the first line terminator of s, or Len(s) + 1
RECURSIVE LineEndAt(_, _)
LineEndAt(s, i) ==
    IF i > Len(s) \/ s[i] \in {"\n", "\r"} THEN i ELSE LineEndAt(s, i + 1)

\* what /^prefix:\s*(.+)/ captures in group 1: the text after the prefix and
\* the white space that follows it; dotAll says whether "." matches a line
\* terminator (the s flag)
Capture(trimmed, prefix, dotAll) ==
    LET rest == trimStart(SliceFrom(trimmed, Len(prefix)))
    IN  IF dotAll THEN rest ELSE SliceTo(rest, LineEndAt(rest, 1) - 1)

\* a match that does not look at the prefix
Matches_NoPrefix(trimmed, prefix, dotAll) == Capture(trimmed, prefix, dotAll) # <<>>

\* a match of /^prefix:\s*(.*)/, which takes a text with nothing after the prefix
Matches_EmptyCapture(trimmed, prefix, dotAll) == startsWith(toLowerCase(trimmed), prefix)

Matches(trimmed, prefix, dotAll) ==
    /\ startsWith(toLowerCase(trimmed), prefix)
    /\ Capture(trimmed, prefix, dotAll) # <<>>

ensureSlash(path) == IF startsWith(path, <<"/">>) THEN path ELSE <<"/">> \o path

\* parseMessage without the command /list
parseMessage_NoSlashList(text) ==
    LET trimmed == trim(text)
        lower == toLowerCase(trimmed)
    IN  IF lower = W_list
        THEN ParsedOf("list", None, None, None)
        ELSE IF Matches(trimmed, P_scan, TRUE)
        THEN LET afterPrefix == Capture(trimmed, P_scan, TRUE)
                 nl == NewlineAt(afterPrefix, 1)
                 prompt == trim(SliceTo(afterPrefix, nl - 1))
                 content == trim(SliceFrom(afterPrefix, nl))
             IN  ParsedOf("scan", Some(prompt),
                          IF content = <<>> THEN None ELSE Some(content), None)
        ELSE IF Matches(trimmed, P_text, TRUE)
        THEN ParsedOf("text", None, Some(trim(Capture(trimmed, P_text, TRUE))), None)
        ELSE IF Matches(trimmed, P_get, FALSE)
        THEN ParsedOf("get", None, None,
                      Some(ensureSlash(trim(Capture(trimmed, P_get, FALSE)))))
        ELSE IF Matches(trimmed, P_file, FALSE)
        THEN ParsedOf("file", None, None,
                      Some(ensureSlash(trim(Capture(trimmed, P_file, FALSE)))))
        ELSE ParsedOf("unknown", None, None, None)

parseMessage(text) ==
    LET trimmed == trim(text)
        lower == toLowerCase(trimmed)
    IN  IF lower = W_list \/ lower = W_slashList
        THEN ParsedOf("list", None, None, None)
        ELSE IF Matches(trimmed, P_scan, TRUE)
        THEN LET afterPrefix == Capture(trimmed, P_scan, TRUE)
                 nl == NewlineAt(afterPrefix, 1)
                 prompt == trim(SliceTo(afterPrefix, nl - 1))
                 content == trim(SliceFrom(afterPrefix, nl))
             IN  ParsedOf("scan", Some(prompt),
                          IF content = <<>> THEN None ELSE Some(content), None)
        ELSE IF Matches(trimmed, P_text, TRUE)
        THEN ParsedOf("text", None, Some(trim(Capture(trimmed, P_text, TRUE))), None)
        ELSE IF Matches(trimmed, P_get, FALSE)
        THEN ParsedOf("get", None, None,
                      Some(ensureSlash(trim(Capture(trimmed, P_get, FALSE)))))
        ELSE IF Matches(trimmed, P_file, FALSE)
        THEN ParsedOf("file", None, None,
                      Some(ensureSlash(trim(Capture(trimmed, P_file, FALSE)))))
        ELSE ParsedOf("unknown", None, None, None)

MAX_CAPTION == 100

\* isFileCaption accepting a caption of MAX_CAPTION characters
isFileCaption_Inclusive(text) ==
    LET trimmed == trim(text)
        lower == toLowerCase(trimmed)
    IN  IF \/ startsWith(lower, P_scan)
           \/ startsWith(lower, P_text)
           \/ startsWith(lower, P_get)
           \/ startsWith(lower, P_file)
           \/ lower = W_list
           \/ startsWith(lower, <<"/">>)
        THEN FALSE
        ELSE Len(trimmed) > 0 /\ Len(trimmed) <= MAX_CAPTION

\* isFileCaption without the test for the word list
isFileCaption_ListAllowed(text) ==
    LET trimmed == trim(text)
        lower == toLowerCase(trimmed)
    IN  IF \/ startsWith(lower, P_scan)
           \/ startsWith(lower, P_text)
           \/ startsWith(lower, P_get)
           \/ startsWith(lower, P_file)
           \/ startsWith(lower, <<"/">>)
        THEN FALSE
        ELSE Len(trimmed) > 0 /\ Len(trimmed) < MAX_CAPTION

isFileCaption(text) ==
    LET trimmed == trim(text)
        lower == toLowerCase(trimmed)
    IN  IF \/ startsWith(lower, P_scan)
           \/ startsWith(lower, P_text)
           \/ startsWith(lower, P_get)
           \/ startsWith(lower, P_file)
           \/ lower = W_list
           \/ startsWith(lower, <<"/">>)
        THEN FALSE
        ELSE Len(trimmed) > 0 /\ Len(trimmed) < MAX_CAPTION

----------------------------------------------------------------------------
(* state.ts: the encrypted session store *)

Users == {1, 2}

\* the plaintext view of a session; {} is the session with every field absent
Session(apiKey, lastPrompt, linkedAt) ==
    [apiKey |-> apiKey, lastPrompt |-> lastPrompt, linkedAt |-> linkedAt]

EmptySession == Session(None, None, None)

IVs == 1..NumIvs

\* cipher.update(text, 'utf8', 'hex') + cipher.final('hex') of
\* createCipheriv('aes-256-cbc', key, iv): the ciphertext is a function of the
\* text and of the iv
cipher(text, iv) == [i \in 1..Len(text) |-> <<iv, text[i]>>]

\* the character a cipher block turns out as when it is not deciphered under
\* the iv of its encryption
Garbled == "?"

\* decipher.update(encrypted, 'hex', 'utf8') + decipher.final('utf8') of
\* createDecipheriv('aes-256-cbc', key, iv)
decipher(encrypted, iv) ==
    [i \in 1..Len(encrypted) |->
        IF encrypted[i][1] = iv THEN encrypted[i][2] ELSE Garbled]

\* encrypt under one iv for every call, whatever randomBytes returned
encrypt_StaticIv(text, iv) == [iv |-> 1, body |-> cipher(text, 1), intact |-> TRUE]

\* iv.toString('hex') + ':' + encrypted; intact says whether createDecipheriv
\* and decipher.final accept it under the current ENCRYPTION_KEY
encrypt(text, iv) == [iv |-> iv, body |-> cipher(text, iv), intact |-> TRUE]

decryptThrows(encryptedText) == ~encryptedText.intact

\* decrypt with the iv that the stored text does not carry
decrypt_FixedIv(encryptedText) == decipher(encryptedText.body, 1)

\* const [ivHex, encrypted] = encryptedText.split(':'); decipher under ivHex
decrypt(encryptedText) == decipher(encryptedText.body, encryptedText.iv)

\* getSession leaving the stored text in apiKey when it does not decrypt
getSession_KeepStored(st, userId) ==
    LET data == st[userId]
    IN  IF ~IsSome(data) THEN EmptySession
        ELSE LET rec == Get(data)
             IN  IF IsSome(rec.apiKey)
                 THEN IF decryptThrows(Get(rec.apiKey))
                      THEN [rec EXCEPT !.apiKey = Some(Get(rec.apiKey).body)]
                      ELSE [rec EXCEPT !.apiKey = Some(decrypt(Get(rec.apiKey)))]
                 ELSE rec

\* getSession giving up the whole record when the credential does not decrypt
getSession_DropRecord(st, userId) ==
    LET data == st[userId]
    IN  IF ~IsSome(data) THEN EmptySession
        ELSE LET rec == Get(data)
             IN  IF IsSome(rec.apiKey)
                 THEN IF decryptThrows(Get(rec.apiKey))
                      THEN EmptySession
                      ELSE [rec EXCEPT !.apiKey = Some(decrypt(Get(rec.apiKey)))]
                 ELSE rec

\* getSession applied to what keyv.get returned
getSession(st, userId) ==
    LET data == st[userId]
    IN  IF ~IsSome(data) THEN EmptySession
        ELSE LET rec == Get(data)
             IN  IF IsSome(rec.apiKey)
                 THEN IF decryptThrows(Get(rec.apiKey))
                      THEN [rec EXCEPT !.apiKey = None]
                      ELSE [rec EXCEPT !.apiKey = Some(decrypt(Get(rec.apiKey)))]
                 ELSE rec

\* saveSession storing the credential encoded under no iv: not encrypted
saveSession_Unencrypted(session, iv) ==
    IF IsSome(session.apiKey) /\ Get(session.apiKey) # <<>>
    THEN [session EXCEPT !.apiKey = Some(encrypt(Get(session.apiKey), 0))]
    ELSE session

\* the record saveSession hands to keyv.set
saveSession(session, iv) ==
    IF IsSome(session.apiKey) /\ Get(session.apiKey) # <<>>
    THEN [session EXCEPT !.apiKey = Some(encrypt(Get(session.apiKey), iv))]
    ELSE session

\* { ...current, ...updates }: a field of updates that is absent is not named
SessionFields == {"apiKey", "lastPrompt", "linkedAt"}

\* the updates alone: the fields they do not name are dropped
mergeSession_Replace(current, updates) == updates

mergeSession(current, updates) ==
    [f \in SessionFields |->
        IF IsSome(updates[f]) THEN updates[f] ELSE current[f]]

\* a setApiKey that also names lastPrompt and resets it
setApiKeyUpdates_ResetPrompt(apiKey, date) == Session(Some(apiKey), Some(<<>>), Some(date))

setApiKeyUpdates(apiKey, date) == Session(Some(apiKey), None, Some(date))

\* a setLastPrompt that also names linkedAt and sets a new date
setLastPromptUpdates_Relink(prompt) == Session(None, Some(prompt), Some(MaxTime))

setLastPromptUpdates(prompt) == Session(None, Some(prompt), None)

getApiKey(st, userId) == getSession(st, userId).apiKey

getLastPrompt(st, userId) == getSession(st, userId).lastPrompt

\* !!session.apiKey
hasApiKey(st, userId) ==
    LET k == getSession(st, userId).apiKey IN IsSome(k) /\ Get(k) # <<>>

\* JavaScript truthiness of an optional string
Truthy(o) == IsSome(o) /\ Get(o) # <<>>

----------------------------------------------------------------------------
(* The pending-file holder *)

\* Buffer.toString('base64') and Buffer.from(text, 'base64')
toBase64(bytes) == <<"b64">> \o bytes
fromBase64(text) == IF text # <<>> /\ Head(text) = "b64" THEN Tail(text) ELSE <<>>

PendingFile(buffer, prompt, filename, mimeType) ==
    [prompt |-> prompt, buffer |-> buffer, filename |-> filename, mimeType |-> mimeType]

----------------------------------------------------------------------------
(* Inbound events *)

S_ep == <<"e","p","_">>
Repeat(c, n) == [i \in 1..n |-> c]

\* message texts
T_list     == <<"L","i","s","t">>
T_scanP    == <<"s","c","a","n",":"," ","<","p",">">>
T_scanPC   == <<"S","c","a","n",":"," ","q",">"," ","\n"," ","<","b",">","\n","c"," ">>
T_text     == <<"t","e","x","t",":"," ","n","<">>
T_get      == <<"g","e","t",":"," ","a","/","<","b">>
T_file     == <<"f","i","l","e",":"," ","/","f",">">>
\* a scan: message whose prompt and content sanitize empties
T_scanAngle == <<"s","c","a","n",":"," ","<","\n",">">>
T_hello    == <<"h","i">>
T_key      == S_ep \o Repeat("k", 17)
T_keyPad   == <<" ">> \o S_ep \o Repeat("j", 17) \o <<"\n">>
T_keyShort == S_ep \o Repeat("k", 16)

Texts == {T_hello, T_list, T_file, T_text, T_get, T_scanP, T_scanPC, T_scanAngle,
          T_keyShort, T_key, T_keyPad}

\* upload captions; <<>> is an upload without caption
C_cap  == <<" ","<","j","o","b",">"," ">>
C_scan == <<"s","c","a","n",":"," ","x">>

\* a caption that sanitize empties
C_angle == <<"<",">">>

Captions == {<<>>, C_scan, C_cap, C_angle}

\* button payloads
D_help       == <<"h","e","l","p">>
D_setup      == <<"s","e","t","u","p">>
D_setupReady == <<"s","e","t","u","p","_","r","e","a","d","y">>
D_status     == <<"s","t","a","t","u","s">>
D_list       == <<"l","i","s","t">>
D_getP       == <<"g","e","t",":">>
D_refreshP   == <<"r","e","f","r","e","s","h",":">>
D_webLink    == <<"w","e","b","_","l","i","n","k">>
D_cancel     == <<"c","a","n","c","e","l">>
D_openclawP  == <<"o","p","e","n","c","l","a","w",":">>
D_yes        == D_openclawP \o <<"y","e","s">>
D_no         == D_openclawP \o <<"n","o">>
\* the payload of confirmKeyboard's first button
D_confirm    == <<"c","o","n","f","i","r","m",":","x">>

Payloads == {D_help, D_list, D_setup, D_cancel, D_status,
             D_getP \o <<"/","a">>, D_webLink, D_confirm,
             D_refreshP \o <<"/","a">>, D_no, D_setupReady, D_yes}

MAX_FILE_SIZE == 10485760

\* an uploaded file: file_size (0 when absent), file_name and mime_type
\* (optional), the bytes the download yields, and whether the file is one that
\* needs the yes/no processing-mode decision
FileOf(size, name, mime, bytes, needsDecision) ==
    [bytes |-> bytes, size |-> size, name |-> name, mime |-> mime,
     needsDecision |-> needsDecision]

NoFile == FileOf(0, None, None, <<>>, FALSE)

Files == {FileOf(0, None, None, <<"x">>, FALSE),
          FileOf(MAX_FILE_SIZE, Some(<<"a",".","m","d">>), Some(<<"t","x","t">>), <<"y">>, TRUE),
          FileOf(MAX_FILE_SIZE + 1, None, None, <<"z">>, FALSE)}

EventOf(kind, user, chat, text, file) ==
    [text |-> text, kind |-> kind, user |-> user, chat |-> chat, file |-> file]

NoEvent == EventOf("none", 1, "private", <<>>, NoFile)

ChatTypes == {"private", "group"}

\* the texts sent in a group chat: the credential texts and one command
GroupTexts == {T_list, T_key, T_keyPad}

\* every text in a private chat and the group texts
TextEvents(U) ==
    {EventOf("text", u, "private", t, NoFile) : u \in U, t \in Texts}
    \cup {EventOf("text", u, "group", t, NoFile) : u \in U, t \in GroupTexts}

CallbackEvents(U) == {EventOf("callback", u, "private", d, NoFile) : u \in U, d \in Payloads}

DocumentEvents(U) == {EventOf("document", u, "private", c, f) : u \in U, c \in Captions, f \in Files}

PhotoCaptions == {<<>>, C_cap}

PhotoFiles == {f \in Files : ~f.needsDecision}

PhotoEvents(U) ==
    {EventOf("photo", u, "private", c, f) : u \in U, c \in PhotoCaptions, f \in PhotoFiles}

----------------------------------------------------------------------------
(* Replies and backend requests *)

\* a reply: which message, and the user text interpolated into it
Reply(msg, arg) == [msg |-> msg, arg |-> arg]

\* a request to the Endpoints API as the client builds it
\* (isClawdbotTranscript: the request carries the processing-mode flag, on)
Request(op, apiKey, prompt, content, path, file) ==
    [prompt |-> prompt, content |-> content, path |-> path, apiKey |-> apiKey,
     file |-> file, op |-> op, isClawdbotTranscript |-> FALSE]

\* the multipart part scanFile appends under 'files'
FilePart(bytes, filename, mimeType) ==
    [bytes |-> bytes, filename |-> filename, mimeType |-> mimeType]

NoPart == FilePart(<<>>, <<>>, <<>>)

\* what apiRequest does: it returns the parsed body (success), which carries
\* data (item) or not, or it throws on a failed fetch or a non-2xx answer
\* (success = FALSE)
Responses == {[success |-> FALSE, item |-> FALSE],
              [success |-> TRUE, item |-> FALSE],
              [success |-> TRUE, item |-> TRUE]}

----------------------------------------------------------------------------
(* One update being handled: the handler's position and its local variables *)

Task(pc, handler, ev) ==
    [prompt |-> <<>>, content |-> None, path |-> <<>>, apiKey |-> <<>>,
     current |-> EmptySession, updates |-> EmptySession,
     pc |-> pc, handler |-> handler, ev |-> ev, updated |-> EmptySession,
     sanitizedPrompt |-> <<>>, pendingFile |-> None, isOpenClaw |-> FALSE,
     result |-> None, replies |-> <<>>, calls |-> <<>>, downloads |-> 0]

Idle == Task("idle", "none", NoEvent)

\* ctx.reply(...)
reply(t, msg, arg) == [t EXCEPT !.replies = Append(@, Reply(msg, arg))]

\* the handler returns
return(t) == [t EXCEPT !.pc = "done"]

\* the handler suspends on an awaited call
await(t, pc) == [t EXCEPT !.pc = pc]

\* the client sends a request and the handler suspends until the answer
call(t, req) == [t EXCEPT !.calls = Append(@, req), !.pc = "backend"]

\* updateSession(userId, updates) is entered
updateSession(t, updates) == [t EXCEPT !.updates = updates, !.pc = "updateSession:get"]

----------------------------------------------------------------------------
(* endpoints-api.ts: the requests the client functions send *)

validateApiKeyRequest(apiKey) ==
    Request("validateApiKey", apiKey, <<>>, <<>>, <<>>, NoPart)

scanTextRequest(apiKey, prompt, text) ==
    Request("scanText", apiKey, prompt, text, <<>>, NoPart)

\* the form holds 'prompt' and 'files' only
scanFile(apiKey, prompt, fileBuffer, filename, mimeType, options) ==
    Request("scanFile", apiKey, prompt, <<>>, <<>>,
            FilePart(fileBuffer, filename, mimeType))

NoOptions == [isClawdbotTranscript |-> FALSE]

listEndpointsRequest(apiKey) ==
    Request("listEndpoints", apiKey, <<>>, <<>>, <<>>, NoPart)

\* `/api/endpoints${cleanPath}`
API_ENDPOINTS == <<"/","a","p","i","/","e","n","d","p","o","i","n","t","s">>

getEndpointRequest(apiKey, path) ==
    Request("getEndpoint", apiKey, <<>>, <<>>, API_ENDPOINTS \o ensureSlash(path), NoPart)

getStatsRequest(apiKey) ==
    Request("getStats", apiKey, <<>>, <<>>, <<>>, NoPart)

\* the value a client function returns for what apiRequest did: the try
\* block's result, or the value of its catch block
ScanResult(success, item, error) == [success |-> success, item |-> item, error |-> error]

scanTextResult(r) ==
    IF r.success THEN ScanResult(TRUE, r.item, FALSE) ELSE ScanResult(FALSE, FALSE, TRUE)

scanFileResult(r) ==
    IF r.success THEN ScanResult(TRUE, r.item, FALSE) ELSE ScanResult(FALSE, FALSE, TRUE)

\* the flattened list of endpoints; catch { return [] }
listEndpointsResult(r) == IF r.success /\ r.item THEN <<"endpoint">> ELSE <<>>

getEndpointResult(r) ==
    IF r.success THEN ScanResult(TRUE, r.item, FALSE) ELSE ScanResult(FALSE, FALSE, TRUE)

getStatsResult(r) ==
    IF r.success THEN ScanResult(TRUE, r.item, FALSE) ELSE ScanResult(FALSE, FALSE, TRUE)

\* try { await apiRequest(...); return true } catch { return false }
validateApiKeyResult(r) == r.success

clientResult(op, r) ==
    CASE op = "scanText"       -> scanTextResult(r)
      [] op = "scanFile"       -> scanFileResult(r)
      [] op = "listEndpoints"  -> listEndpointsResult(r)
      [] op = "getEndpoint"    -> getEndpointResult(r)
      [] op = "getStats"       -> getStatsResult(r)
      [] op = "validateApiKey" -> validateApiKeyResult(r)

----------------------------------------------------------------------------
(* formatters.ts: which message a result is turned into *)

formatEndpointsList(endpoints) ==
    IF Len(endpoints) = 0 THEN "noEndpoints" ELSE "endpointsList"

formatScanResult(result) ==
    IF ~result.success THEN "scanFailed"
    ELSE IF ~result.item THEN "scanNoData"
    ELSE "scanned"

formatEndpointData(result) ==
    IF ~result.success THEN "endpointError"
    ELSE IF ~result.item THEN "endpointNoData"
    ELSE "endpointData"

formatStats(result) ==
    IF ~result.success THEN "statusFailed"
    ELSE IF ~result.item THEN "statusNoUsage"
    ELSE "stats"

\* Math.round(n / d) for a natural number n and a positive d
Round(n, d) == (2 * n + d) \div (2 * d)

\* the two cells of the progress bar, U+2593 and U+2591
CellFilled == "#"
CellEmpty == "-"

BAR_CELLS == 10

\* String.prototype.repeat throws a RangeError for a negative count
RangeError == None

generateProgressBar(percent) ==
    LET filled == Round(percent, 10)
        empty == BAR_CELLS - filled
    IN  IF empty < 0 THEN RangeError
        ELSE Some(Repeat(CellFilled, filled) \o Repeat(CellEmpty, empty))

\* what formatStats makes: which message, and for the stats message the
\* percentage and the progress bar, or the RangeError in its place
StatsText(msg, usagePercent, progressBar) ==
    [msg |-> msg, usagePercent |-> usagePercent, progressBar |-> progressBar]

\* formatStats with the numbers of its stats message
formatStatsText(result) ==
    IF formatStats(result) # "stats" THEN StatsText(formatStats(result), 0, Some(<<>>))
    ELSE LET usage == result.usage
             usagePercent == Round(usage.parsesThisMonth * 100, usage.parseLimit)
             progressBar == generateProgressBar(usagePercent)
         IN  StatsText("stats", usagePercent, progressBar)

----------------------------------------------------------------------------
(* handlers/commands.ts: handleApiKeyInput *)

MIN_KEY_LENGTH == 20

\* handleApiKeyInput without its test of the chat type
handleApiKeyInput_AnyChat(t, v) ==
    LET text == trim(t.ev.text)
    IN  CASE t.pc = "start" ->
               IF ~startsWith(text, S_ep) \/ Len(text) < MIN_KEY_LENGTH
               THEN await(t, "notApiKey")
               ELSE call(t, validateApiKeyRequest(text))
          [] t.pc = "backend" ->
               IF ~v
               THEN return(reply(t, "invalidApiKey", <<>>))
               ELSE updateSession(t, setApiKeyUpdates(text, now))
          [] t.pc = "updated" ->
               return(reply(t, "apiKeySaved", <<>>))

\* handleApiKeyInput saving the key whatever the validation answered
handleApiKeyInput_SaveUnvalidated(t, v) ==
    LET text == trim(t.ev.text)
    IN  CASE t.pc = "start" ->
               IF ~startsWith(text, S_ep) \/ Len(text) < MIN_KEY_LENGTH
               THEN await(t, "notApiKey")
               ELSE IF t.ev.chat # "private"
               THEN return(reply(t, "privateOnly", <<>>))
               ELSE call(t, validateApiKeyRequest(text))
          [] t.pc = "backend" ->
               updateSession(t, setApiKeyUpdates(text, now))
          [] t.pc = "updated" ->
               return(reply(t, "apiKeySaved", <<>>))

\* handleApiKeyInput quoting the key in its replies
handleApiKeyInput_EchoKey(t, v) ==
    LET text == trim(t.ev.text)
    IN  CASE t.pc = "start" ->
               IF ~startsWith(text, S_ep) \/ Len(text) < MIN_KEY_LENGTH
               THEN await(t, "notApiKey")
               ELSE IF t.ev.chat # "private"
               THEN return(reply(t, "privateOnly", <<>>))
               ELSE call(t, validateApiKeyRequest(text))
          [] t.pc = "backend" ->
               IF ~v
               THEN return(reply(t, "invalidApiKey", text))
               ELSE updateSession(t, setApiKeyUpdates(text, now))
          [] t.pc = "updated" ->
               return(reply(t, "apiKeySaved", text))

\* v is the value the awaited call returned
handleApiKeyInput(t, v) ==
    LET text == trim(t.ev.text)
    IN  CASE t.pc = "start" ->
               IF ~startsWith(text, S_ep) \/ Len(text) < MIN_KEY_LENGTH
               THEN await(t, "notApiKey")
               ELSE IF t.ev.chat # "private"
               THEN return(reply(t, "privateOnly", <<>>))
               ELSE call(t, validateApiKeyRequest(text))
          [] t.pc = "backend" ->
               IF ~v
               THEN return(reply(t, "invalidApiKey", <<>>))
               ELSE updateSession(t, setApiKeyUpdates(text, now))
          [] t.pc = "updated" ->
               return(reply(t, "apiKeySaved", <<>>))

----------------------------------------------------------------------------
(* handlers/messages.ts *)

handleListMessage(t, v) ==
    CASE t.pc = "start" -> await(t, "getApiKey")
      [] t.pc = "getApiKey" ->
           IF ~Truthy(v)
           THEN return(reply(t, "missingApiKey", <<>>))
           ELSE call([t EXCEPT !.apiKey = Get(v)], listEndpointsRequest(Get(v)))
      [] t.pc = "backend" ->
           return(reply(t, formatEndpointsList(v), <<>>))

\* handleScanMessage calling the backend before it persists the prompt
handleScanMessage_CallFirst(t, v) ==
    CASE t.pc = "start" -> await(t, "getApiKey")
      [] t.pc = "getApiKey" ->
           IF ~Truthy(v)
           THEN return(reply(t, "missingApiKey", <<>>))
           ELSE LET sanitizedPrompt == sanitize(t.prompt)
                    u == [t EXCEPT !.apiKey = Get(v), !.sanitizedPrompt = sanitizedPrompt]
                IN  IF ~Truthy(t.content)
                    THEN updateSession(u, setLastPromptUpdates(sanitizedPrompt))
                    ELSE call(u, scanTextRequest(Get(v), sanitizedPrompt,
                                                 sanitize(Get(t.content))))
      [] t.pc = "backend" ->
           updateSession(t, setLastPromptUpdates(t.sanitizedPrompt))
      [] t.pc = "updated" ->
           IF ~Truthy(t.content)
           THEN return(reply(t, "promptSet", t.sanitizedPrompt))
           ELSE return(reply(t, formatScanResult(scanTextResult(Get(t.result))), <<>>))

\* handleScanMessage persisting the prompt before it reads the credential
handleScanMessage_PersistFirst(t, v) ==
    CASE t.pc = "start" ->
           updateSession([t EXCEPT !.sanitizedPrompt = sanitize(t.prompt)],
                         setLastPromptUpdates(sanitize(t.prompt)))
      [] t.pc = "updated" -> await(t, "getApiKey")
      [] t.pc = "getApiKey" ->
           IF ~Truthy(v)
           THEN return(reply(t, "missingApiKey", <<>>))
           ELSE IF ~Truthy(t.content)
           THEN return(reply([t EXCEPT !.apiKey = Get(v)], "promptSet", t.sanitizedPrompt))
           ELSE call([t EXCEPT !.apiKey = Get(v)],
                     scanTextRequest(Get(v), t.sanitizedPrompt, sanitize(Get(t.content))))
      [] t.pc = "backend" ->
           return(reply(t, formatScanResult(v), <<>>))

\* a scan: message that stores and sends the prompt as it was typed
handleScanMessage_RawPrompt(t, v) ==
    CASE t.pc = "start" -> await(t, "getApiKey")
      [] t.pc = "getApiKey" ->
           IF ~Truthy(v)
           THEN return(reply(t, "missingApiKey", <<>>))
           ELSE LET sanitizedPrompt == t.prompt
                IN  updateSession([t EXCEPT !.apiKey = Get(v),
                                            !.sanitizedPrompt = sanitizedPrompt],
                                  setLastPromptUpdates(sanitizedPrompt))
      [] t.pc = "updated" ->
           IF ~Truthy(t.content)
           THEN return(reply(t, "promptSet", t.sanitizedPrompt))
           ELSE LET sanitizedContent == sanitize(Get(t.content))
                IN  call(t, scanTextRequest(t.apiKey, t.sanitizedPrompt, sanitizedContent))
      [] t.pc = "backend" ->
           return(reply(t, formatScanResult(v), <<>>))

handleScanMessage(t, v) ==
    CASE t.pc = "start" -> await(t, "getApiKey")
      [] t.pc = "getApiKey" ->
           IF ~Truthy(v)
           THEN return(reply(t, "missingApiKey", <<>>))
           ELSE LET sanitizedPrompt == sanitize(t.prompt)
                IN  updateSession([t EXCEPT !.apiKey = Get(v),
                                            !.sanitizedPrompt = sanitizedPrompt],
                                  setLastPromptUpdates(sanitizedPrompt))
      [] t.pc = "updated" ->
           IF ~Truthy(t.content)
           THEN return(reply(t, "promptSet", t.sanitizedPrompt))
           ELSE LET sanitizedContent == sanitize(Get(t.content))
                IN  call(t, scanTextRequest(t.apiKey, t.sanitizedPrompt, sanitizedContent))
      [] t.pc = "backend" ->
           return(reply(t, formatScanResult(v), <<>>))

\* a text: scan that sends the content as it was typed
handleTextScanMessage_RawContent(t, v) ==
    CASE t.pc = "start" -> await(t, "getApiKey")
      [] t.pc = "getApiKey" ->
           IF ~Truthy(v)
           THEN return(reply(t, "missingApiKey", <<>>))
           ELSE await([t EXCEPT !.apiKey = Get(v)], "getLastPrompt")
      [] t.pc = "getLastPrompt" ->
           IF ~Truthy(v)
           THEN return(reply(t, "noPromptSet", <<>>))
           ELSE LET sanitizedContent == Get(t.content)
                IN  call([t EXCEPT !.prompt = Get(v)],
                         scanTextRequest(t.apiKey, Get(v), sanitizedContent))
      [] t.pc = "backend" ->
           return(reply(t, formatScanResult(v), <<>>))

handleTextScanMessage(t, v) ==
    CASE t.pc = "start" -> await(t, "getApiKey")
      [] t.pc = "getApiKey" ->
           IF ~Truthy(v)
           THEN return(reply(t, "missingApiKey", <<>>))
           ELSE await([t EXCEPT !.apiKey = Get(v)], "getLastPrompt")
      [] t.pc = "getLastPrompt" ->
           IF ~Truthy(v)
           THEN return(reply(t, "noPromptSet", <<>>))
           ELSE LET sanitizedContent == sanitize(Get(t.content))
                IN  call([t EXCEPT !.prompt = Get(v)],
                         scanTextRequest(t.apiKey, Get(v), sanitizedContent))
      [] t.pc = "backend" ->
           return(reply(t, formatScanResult(v), <<>>))

\* handleGetMessage without its test of the credential
handleGetMessage_NoCredentialCheck(t, v) ==
    CASE t.pc = "start" -> await(t, "getApiKey")
      [] t.pc = "getApiKey" ->
           LET apiKey == IF Truthy(v) THEN Get(v) ELSE <<>>
           IN  call([t EXCEPT !.apiKey = apiKey], getEndpointRequest(apiKey, t.path))
      [] t.pc = "backend" ->
           return(reply(t, formatEndpointData(v), <<>>))

handleGetMessage(t, v) ==
    CASE t.pc = "start" -> await(t, "getApiKey")
      [] t.pc = "getApiKey" ->
           IF ~Truthy(v)
           THEN return(reply(t, "missingApiKey", <<>>))
           ELSE call([t EXCEPT !.apiKey = Get(v)], getEndpointRequest(Get(v), t.path))
      [] t.pc = "backend" ->
           return(reply(t, formatEndpointData(v), <<>>))

handleFileGetMessage(t, v) ==
    CASE t.pc = "start" -> await(t, "getApiKey")
      [] t.pc = "getApiKey" ->
           IF ~Truthy(v)
           THEN return(reply(t, "missingApiKey", <<>>))
           ELSE return(reply([t EXCEPT !.apiKey = Get(v)], "fileComingSoon", t.path))

handleUnknownMessage(t, v) ==
    return(reply(t, "unknownCommand", <<>>))

handleTextMessage(ev) ==
    LET text == ev.text
        wasApiKey == handleApiKeyInput(Task("start", "handleApiKeyInput", ev), None)
        parsed == parseMessage(text)
    IN  IF text = <<>> THEN return(Task("start", "handleTextMessage", ev))
        ELSE IF wasApiKey.pc # "notApiKey" THEN wasApiKey
        ELSE CASE parsed.type = "list" ->
                    handleListMessage(Task("start", "handleListMessage", ev), None)
               [] parsed.type = "scan" ->
                    handleScanMessage([Task("start", "handleScanMessage", ev) EXCEPT
                                          !.prompt = Get(parsed.prompt),
                                          !.content = parsed.content], None)
               [] parsed.type = "text" ->
                    handleTextScanMessage([Task("start", "handleTextScanMessage", ev) EXCEPT
                                              !.content = parsed.content], None)
               [] parsed.type = "get" ->
                    handleGetMessage([Task("start", "handleGetMessage", ev) EXCEPT
                                         !.path = Get(parsed.path)], None)
               [] parsed.type = "file" ->
                    handleFileGetMessage([Task("start", "handleFileGetMessage", ev) EXCEPT
                                             !.path = Get(parsed.path)], None)
               [] OTHER ->
                    handleUnknownMessage(Task("start", "handleUnknownMessage", ev), None)

\* the openclaw: branch without its test for an absent pending file
handleOpenClawDecision_NoExpiredCheck(t, v) ==
    CASE t.pc = "start" ->
           await([t EXCEPT !.isOpenClaw = (t.ev.text = D_yes)], "getPendingFile")
      [] t.pc = "getPendingFile" ->
           await([t EXCEPT !.pendingFile = v], "getApiKey")
      [] t.pc = "getApiKey" ->
           IF ~Truthy(v)
           THEN return(reply(t, "missingApiKey", <<>>))
           ELSE LET pendingFile == IF IsSome(t.pendingFile) THEN Get(t.pendingFile)
                                   ELSE PendingFile(<<>>, <<>>, <<>>, <<>>)
                    buffer == fromBase64(pendingFile.buffer)
                IN  call([t EXCEPT !.apiKey = Get(v)],
                         scanFile(Get(v), pendingFile.prompt, buffer,
                                  pendingFile.filename, pendingFile.mimeType,
                                  [isClawdbotTranscript |-> t.isOpenClaw]))
      [] t.pc = "backend" ->
           return(reply(t, formatScanResult(v), <<>>))

\* the openclaw: branch reading the credential before the pending file
handleOpenClawDecision_CredentialFirst(t, v) ==
    CASE t.pc = "start" ->
           await([t EXCEPT !.isOpenClaw = (t.ev.text = D_yes)], "getApiKey")
      [] t.pc = "getApiKey" ->
           IF ~Truthy(v)
           THEN return(reply(t, "missingApiKey", <<>>))
           ELSE await([t EXCEPT !.apiKey = Get(v)], "getPendingFile")
      [] t.pc = "getPendingFile" ->
           IF ~IsSome(v)
           THEN return(reply(t, "fileExpired", <<>>))
           ELSE LET pendingFile == Get(v)
                    buffer == fromBase64(pendingFile.buffer)
                IN  call([t EXCEPT !.pendingFile = v],
                         scanFile(t.apiKey, pendingFile.prompt, buffer,
                                  pendingFile.filename, pendingFile.mimeType,
                                  [isClawdbotTranscript |-> t.isOpenClaw]))
      [] t.pc = "backend" ->
           return(reply(t, formatScanResult(v), <<>>))

\* handleCallbackQuery, the branch data.startsWith('openclaw:')
handleOpenClawDecision(t, v) ==
    CASE t.pc = "start" ->
           await([t EXCEPT !.isOpenClaw = (t.ev.text = D_yes)], "getPendingFile")
      [] t.pc = "getPendingFile" ->
           IF ~IsSome(v)
           THEN return(reply(t, "fileExpired", <<>>))
           ELSE await([t EXCEPT !.pendingFile = v], "getApiKey")
      [] t.pc = "getApiKey" ->
           IF ~Truthy(v)
           THEN return(reply(t, "missingApiKey", <<>>))
           ELSE LET pendingFile == Get(t.pendingFile)
                    buffer == fromBase64(pendingFile.buffer)
                IN  call([t EXCEPT !.apiKey = Get(v)],
                         scanFile(Get(v), pendingFile.prompt, buffer,
                                  pendingFile.filename, pendingFile.mimeType,
                                  [isClawdbotTranscript |-> t.isOpenClaw]))
      [] t.pc = "backend" ->
           return(reply(t, formatScanResult(v), <<>>))

handleCallbackQuery(t, v) ==
    LET data == t.ev.text
    IN  IF t.pc = "start"
        THEN IF data = <<>> THEN return(t)
             ELSE IF data = D_help THEN return(reply(t, "help", <<>>))
             ELSE IF data = D_setup \/ data = D_setupReady
             THEN return(reply(t, "sendApiKey", <<>>))
             ELSE IF data = D_status \/ data = D_list THEN await(t, "getApiKey")
             ELSE IF startsWith(data, D_getP)
             THEN handleGetMessage([t EXCEPT !.handler = "handleGetMessage",
                                             !.path = SliceFrom(data, 4)], None)
             ELSE IF startsWith(data, D_refreshP)
             THEN handleGetMessage([t EXCEPT !.handler = "handleGetMessage",
                                             !.path = SliceFrom(data, 8)], None)
             ELSE IF data = D_webLink THEN return(reply(t, "webLink", <<>>))
             ELSE IF data = D_cancel THEN return(reply(t, "cancelled", <<>>))
             ELSE IF startsWith(data, D_openclawP) THEN handleOpenClawDecision(t, v)
             ELSE return(t)
        ELSE IF startsWith(data, D_openclawP) THEN handleOpenClawDecision(t, v)
        ELSE IF t.pc = "getApiKey"
        THEN IF ~Truthy(v)
             THEN return(reply(t, "missingApiKey", <<>>))
             ELSE IF data = D_status
             THEN call([t EXCEPT !.apiKey = Get(v)], getStatsRequest(Get(v)))
             ELSE call([t EXCEPT !.apiKey = Get(v)], listEndpointsRequest(Get(v)))
        ELSE IF data = D_status THEN return(reply(t, formatStats(v), <<>>))
        ELSE return(reply(t, formatEndpointsList(v), <<>>))

----------------------------------------------------------------------------
(* handlers/files.ts *)

DefaultFilename == <<"d","o","c","u","m","e","n","t">>
DefaultMimeType == <<"o","c","t","e","t","-","s","t","r","e","a","m">>
JpegMimeType == <<"i","m","a","g","e","/","j","p","e","g">>
Digits == <<"0","1","2","3","4","5","6","7","8","9">>
\* `photo_${Date.now()}.jpg`
PhotoFilename(date) == <<"p","h","o","t","o","_", Digits[date + 1], ".","j","p","g">>

\* the prompt of an upload is known: download and scan, or ask for a caption
\* an upload that goes on without a prompt
uploadWithPrompt_NoCheck(t, prompt) ==
    await([t EXCEPT !.prompt = IF IsSome(prompt) THEN Get(prompt) ELSE <<>>], "download")

uploadWithPrompt(t, prompt) ==
    IF ~Truthy(prompt)
    THEN return(reply(t, "needCaption", <<>>))
    ELSE await([t EXCEPT !.prompt = Get(prompt)], "download")

\* v at "download": whether the download succeeded
handleDocument(t, v) ==
    LET document == t.ev.file
        caption == trim(t.ev.text)
    IN  CASE t.pc = "start" -> await(t, "getApiKey")
          [] t.pc = "getApiKey" ->
               IF ~Truthy(v)
               THEN return(reply(t, "missingApiKey", <<>>))
               ELSE IF document.size # 0 /\ document.size > MAX_FILE_SIZE
               THEN return(reply(t, "fileTooLarge", <<>>))
               ELSE IF caption # <<>> /\ isFileCaption(caption)
               THEN updateSession([t EXCEPT !.apiKey = Get(v),
                                            !.sanitizedPrompt = sanitize(caption)],
                                  setLastPromptUpdates(sanitize(caption)))
               ELSE await([t EXCEPT !.apiKey = Get(v)], "getLastPrompt")
          [] t.pc = "updated" -> uploadWithPrompt(t, Some(t.sanitizedPrompt))
          [] t.pc = "getLastPrompt" -> uploadWithPrompt(t, v)
          [] t.pc = "download" ->
               IF ~v
               THEN return(reply([t EXCEPT !.downloads = @ + 1], "failedToProcess", <<>>))
               ELSE LET filename == IF Truthy(document.name) THEN Get(document.name)
                                    ELSE DefaultFilename
                        mimeType == IF Truthy(document.mime) THEN Get(document.mime)
                                    ELSE DefaultMimeType
                    IN  call([t EXCEPT !.downloads = @ + 1],
                             scanFile(t.apiKey, t.prompt, document.bytes, filename,
                                      mimeType, NoOptions))
          [] t.pc = "backend" ->
               return(reply(t, formatScanResult(v), <<>>))

handlePhoto(t, v) ==
    LET photo == t.ev.file
        caption == trim(t.ev.text)
    IN  CASE t.pc = "start" -> await(t, "getApiKey")
          [] t.pc = "getApiKey" ->
               IF ~Truthy(v)
               THEN return(reply(t, "missingApiKey", <<>>))
               ELSE IF photo.size # 0 /\ photo.size > MAX_FILE_SIZE
               THEN return(reply(t, "imageTooLarge", <<>>))
               ELSE IF caption # <<>> /\ isFileCaption(caption)
               THEN updateSession([t EXCEPT !.apiKey = Get(v),
                                            !.sanitizedPrompt = sanitize(caption)],
                                  setLastPromptUpdates(sanitize(caption)))
               ELSE await([t EXCEPT !.apiKey = Get(v)], "getLastPrompt")
          [] t.pc = "updated" -> uploadWithPrompt(t, Some(t.sanitizedPrompt))
          [] t.pc = "getLastPrompt" -> uploadWithPrompt(t, v)
          [] t.pc = "download" ->
               IF ~v
               THEN return(reply([t EXCEPT !.downloads = @ + 1], "failedToProcess", <<>>))
               ELSE call([t EXCEPT !.downloads = @ + 1],
                         scanFile(t.apiKey, t.prompt, photo.bytes, PhotoFilename(now),
                                  JpegMimeType, NoOptions))
          [] t.pc = "backend" ->
               return(reply(t, formatScanResult(v), <<>>))

----------------------------------------------------------------------------
(* The handler of a task resumes with the value its awaited call returned *)

resume(t, v) ==
    CASE t.handler = "handleApiKeyInput"     -> handleApiKeyInput(t, v)
      [] t.handler = "handleListMessage"     -> handleListMessage(t, v)
      [] t.handler = "handleScanMessage"     -> handleScanMessage(t, v)
      [] t.handler = "handleTextScanMessage" -> handleTextScanMessage(t, v)
      [] t.handler = "handleGetMessage"      -> handleGetMessage(t, v)
      [] t.handler = "handleFileGetMessage"  -> handleFileGetMessage(t, v)
      [] t.handler = "handleCallbackQuery"   -> handleCallbackQuery(t, v)
      [] t.handler = "handleDocument"        -> handleDocument(t, v)
      [] t.handler = "handlePhoto"           -> handlePhoto(t, v)

----------------------------------------------------------------------------
(* The state machine *)

Slots == 1..MaxInflight

\* the user whose events the sequential specification draws
OneUser == {1}

Free(s) == tasks[s].pc \in {"idle", "done"}

At(s, pc) == tasks[s].pc = pc

Resume(s, v) == tasks' = [tasks EXCEPT ![s] = resume(tasks[s], v)]

KeptSession == UNCHANGED <<store, pending, now, uploads, argument, returned>>

Init ==
    /\ store = [u \in Users |-> None]
    /\ pending = [u \in Users |-> None]
    /\ tasks = [s \in Slots |-> Idle]
    /\ now = 0
    /\ uploads = 0
    /\ argument = <<>>
    /\ returned = <<>>

\* bot.on('message:text', handleTextMessage)
OnText(s, E) ==
    /\ Free(s)
    /\ \E ev \in E : tasks' = [tasks EXCEPT ![s] = handleTextMessage(ev)]
    /\ KeptSession

\* bot.on('callback_query:data', handleCallbackQuery)
OnCallbackQuery(s, E) ==
    /\ Free(s)
    /\ \E ev \in E :
          tasks' = [tasks EXCEPT ![s] =
                       handleCallbackQuery(Task("start", "handleCallbackQuery", ev), None)]
    /\ KeptSession

\* bot.on('message:document', handleDocument)
OnDocument(s, E) ==
    /\ Free(s)
    /\ \E ev \in E :
          tasks' = [tasks EXCEPT ![s] =
                       handleDocument(Task("start", "handleDocument", ev), None)]
    /\ KeptSession

\* bot.on('message:photo', handlePhoto)
OnPhoto(s, E) ==
    /\ Free(s)
    /\ \E ev \in E :
          tasks' = [tasks EXCEPT ![s] =
                       handlePhoto(Task("start", "handlePhoto", ev), None)]
    /\ KeptSession

\* await getApiKey(userId) returns
GetApiKey(s) ==
    /\ At(s, "getApiKey")
    /\ Resume(s, getApiKey(store, tasks[s].ev.user))
    /\ KeptSession

\* await getLastPrompt(userId) returns
GetLastPrompt(s) ==
    /\ At(s, "getLastPrompt")
    /\ Resume(s, getLastPrompt(store, tasks[s].ev.user))
    /\ KeptSession

\* updateSession: const current = await getSession(userId);
\* const updated = { ...current, ...updates }
UpdateSessionGet(s) ==
    /\ At(s, "updateSession:get")
    /\ LET current == getSession(store, tasks[s].ev.user)
       IN  tasks' = [tasks EXCEPT ![s] =
                        [@ EXCEPT !.current = current,
                                  !.updated = mergeSession(current, tasks[s].updates),
                                  !.pc = "updateSession:save"]]
    /\ KeptSession

\* updateSession saving under one key for every user
UpdateSessionSave_SharedKey(s) ==
    /\ At(s, "updateSession:save")
    /\ LET t == tasks[s]
       IN  /\ \E iv \in IVs :
                 store' = [u \in Users |-> Some(saveSession(t.updated, iv))]
           /\ tasks' = [tasks EXCEPT ![s] = resume([t EXCEPT !.pc = "updated"], t.updated)]
    /\ UNCHANGED <<pending, now, uploads, argument, returned>>

\* updateSession under a per-user lock: the record is read again when it is saved
UpdateSessionSave_Serialized(s) ==
    /\ At(s, "updateSession:save")
    /\ LET t == tasks[s]
           updated == mergeSession(getSession(store, t.ev.user), t.updates)
       IN  /\ \E iv \in IVs :
                 store' = [store EXCEPT ![t.ev.user] = Some(saveSession(updated, iv))]
           /\ tasks' = [tasks EXCEPT ![s] = resume([t EXCEPT !.pc = "updated"], updated)]
    /\ UNCHANGED <<pending, now, uploads, argument, returned>>

\* updateSession: await saveSession(userId, updated); return updated
UpdateSessionSave(s) ==
    /\ At(s, "updateSession:save")
    /\ LET t == tasks[s]
       IN  /\ \E iv \in IVs :
                 store' = [store EXCEPT ![t.ev.user] = Some(saveSession(t.updated, iv))]
           /\ tasks' = [tasks EXCEPT ![s] = resume([t EXCEPT !.pc = "updated"], t.updated)]
    /\ UNCHANGED <<pending, now, uploads, argument, returned>>

\* await getPendingFile(userId) returns: the file is read once and deleted
GetPendingFile(s) ==
    /\ At(s, "getPendingFile")
    /\ Resume(s, pending[tasks[s].ev.user])
    /\ pending' = [pending EXCEPT ![tasks[s].ev.user] = None]
    /\ UNCHANGED <<store, now, uploads, argument, returned>>

\* apiRequest returns or throws, and the awaited client call returns its
\* result; the task keeps what apiRequest did
Backend(s) ==
    /\ At(s, "backend")
    /\ \E r \in Responses :
          LET t == tasks[s]
              op == t.calls[Len(t.calls)].op
          IN  tasks' = [tasks EXCEPT ![s] =
                           resume([t EXCEPT !.result = Some(r)], clientResult(op, r))]
    /\ KeptSession

\* ctx.getFile() and file.download() return or throw
Download(s) ==
    /\ At(s, "download")
    /\ \E ok \in BOOLEAN : Resume(s, ok)
    /\ KeptSession

\* the n-th file put into the holder: its bytes, prompt and name are its own
PendingUpload(n) ==
    PendingFile(toBase64(<<Upper[n]>>), <<LowerCs[n]>>,
                <<Digits[n + 1], ".", "m", "d">>, <<"m", "d">>)

\* the upload handler of a user with a credential puts a file that needs the
\* yes/no decision into the holder
SetPendingFile ==
    /\ uploads < MaxUploads
    /\ \E u \in OneUser :
          /\ Truthy(getApiKey(store, u))
          /\ pending' = [pending EXCEPT ![u] = Some(PendingUpload(uploads + 1))]
    /\ uploads' = uploads + 1
    /\ UNCHANGED <<store, tasks, now, argument, returned>>

\* the holder's expiry
ExpirePendingFile ==
    /\ \E u \in OneUser :
          /\ IsSome(pending[u])
          /\ pending' = [pending EXCEPT ![u] = None]
    /\ UNCHANGED <<store, tasks, now, uploads, argument, returned>>

\* time passes
Tick ==
    /\ now < MaxTime
    /\ now' = now + 1
    /\ UNCHANGED <<store, pending, tasks, uploads, argument, returned>>

Step(s) ==
    \/ GetApiKey(s)
    \/ GetLastPrompt(s)
    \/ UpdateSessionGet(s)
    \/ UpdateSessionSave(s)
    \/ GetPendingFile(s)
    \/ Backend(s)
    \/ Download(s)

Environment ==
    \/ SetPendingFile
    \/ ExpirePendingFile
    \/ Tick

\* the updates the sequential specification draws
TextUpdates == TextEvents(OneUser)

CallbackUpdates == CallbackEvents(OneUser)

DocumentUpdates == DocumentEvents(OneUser)

PhotoUpdates == PhotoEvents(OneUser)

\* polling mode: one update is handled at a time
Next ==
    \/ OnText(1, TextUpdates)
    \/ OnCallbackQuery(1, CallbackUpdates)
    \/ OnDocument(1, DocumentUpdates)
    \/ OnPhoto(1, PhotoUpdates)
    \/ Step(1)
    \/ Environment

Spec == Init /\ [][Next]_vars

\* the updates the concurrent specification draws: a credential submission
\* and the two decision presses
CredentialTexts(U) == {EventOf("text", u, "private", T_key, NoFile) : u \in U}

Decisions == {D_no, D_yes}

DecisionPresses(U) ==
    {EventOf("callback", u, "private", d, NoFile) : u \in U, d \in Decisions}

CredentialUpdates == CredentialTexts(OneUser)

DecisionUpdates == DecisionPresses(OneUser)

StepConc(s) ==
    \/ GetApiKey(s)
    \/ UpdateSessionGet(s)
    \/ UpdateSessionSave(s)
    \/ GetPendingFile(s)
    \/ Backend(s)

\* webhook mode: every request handles its update at once, so the handlers of
\* several updates interleave at their awaits
NextConc ==
    \/ OnText(1, CredentialUpdates)
    \/ \E s \in Slots : OnCallbackQuery(s, DecisionUpdates)
    \/ \E s \in Slots : StepConc(s)
    \/ SetPendingFile
    \/ ExpirePendingFile

SpecConc == Init /\ [][NextConc]_vars

\* the updates the session specification draws: the first slot handles the
\* credential submissions of one user, the other slots a scan of that user
\* that sets the prompt and the credential submission of another user
RotationTexts == {T_key, T_keyPad}

RotationUpdates == {EventOf("text", u, "private", t, NoFile) : u \in OneUser, t \in RotationTexts}

OtherUsers == Users \ OneUser

PromptUpdates == {EventOf("text", u, "private", T_scanP, NoFile) : u \in OneUser}

OtherUpdates == PromptUpdates \cup CredentialTexts(OtherUsers)

\* the stored credential of a user stops decrypting: ENCRYPTION_KEY is not
\* the key it was encrypted with, or the stored text is damaged
Corrupt ==
    /\ \E u \in Users :
          /\ IsSome(store[u])
          /\ IsSome(Get(store[u]).apiKey)
          /\ Get(Get(store[u]).apiKey).intact
          /\ store' = [store EXCEPT ![u] =
                           Some([Get(@) EXCEPT !.apiKey =
                                     Some([Get(@) EXCEPT !.intact = FALSE])])]
    /\ UNCHANGED <<pending, tasks, now, uploads, argument, returned>>

\* a clearSession that removes the credential and keeps the record
ClearSession_CredentialOnly ==
    /\ \E u \in Users :
          /\ IsSome(store[u])
          /\ IsSome(Get(store[u]).apiKey)
          /\ store' = [store EXCEPT ![u] = Some([Get(@) EXCEPT !.apiKey = None])]
    /\ UNCHANGED <<pending, tasks, now, uploads, argument, returned>>

\* clearSession(userId): await keyv.delete(String(userId))
ClearSession ==
    /\ \E u \in Users :
          /\ IsSome(store[u])
          /\ store' = [store EXCEPT ![u] = None]
    /\ UNCHANGED <<pending, tasks, now, uploads, argument, returned>>

StepSession(s) ==
    \/ GetApiKey(s)
    \/ UpdateSessionGet(s)
    \/ UpdateSessionSave(s)
    \/ Backend(s)

\* webhook mode with updates of two users, and the two changes of the store
\* that no handler makes
NextSession ==
    \/ OnText(1, RotationUpdates)
    \/ \E s \in Slots \ {1} : OnText(s, OtherUpdates)
    \/ \E s \in Slots : StepSession(s)
    \/ Corrupt
    \/ ClearSession

SpecSession == Init /\ [][NextSession]_vars

\* the updates the prompt specification draws: the first slot handles the
\* messages, button presses and uploads of one user, the other slots a
\* credential submission and a prompt-setting scan of the same user
PromptTexts == {T_list, T_file, T_text, T_get, T_scanPC, T_key}

PromptTextUpdates ==
    {EventOf("text", u, "private", t, NoFile) : u \in OneUser, t \in PromptTexts}

PromptPayloads == {D_list, D_status, D_getP \o <<"/","a">>}

PromptCallbackUpdates ==
    {EventOf("callback", u, "private", d, NoFile) : u \in OneUser, d \in PromptPayloads}

SmallFiles == {f \in Files : f.size = 0}

PromptDocumentUpdates ==
    {EventOf("document", u, "private", c, f) :
        u \in OneUser, c \in PhotoCaptions, f \in SmallFiles}

StaleTexts == {T_key, T_scanP}

StaleUpdates ==
    {EventOf("text", u, "private", t, NoFile) : u \in OneUser, t \in StaleTexts}

StepPrompt(s) ==
    \/ GetApiKey(s)
    \/ GetLastPrompt(s)
    \/ UpdateSessionGet(s)
    \/ UpdateSessionSave(s)
    \/ Backend(s)
    \/ Download(s)

\* webhook mode with the updates of one user that read or write the prompt
NextPrompt ==
    \/ OnText(1, PromptTextUpdates)
    \/ OnCallbackQuery(1, PromptCallbackUpdates)
    \/ OnDocument(1, PromptDocumentUpdates)
    \/ \E s \in Slots \ {1} : OnText(s, StaleUpdates)
    \/ \E s \in Slots : StepPrompt(s)
    \/ ClearSession

SpecPrompt == Init /\ [][NextPrompt]_vars

\* a scan: message with a prompt longer than sanitize keeps
T_scanLong == P_scan \o <<" ", "<">> \o Repeat("p", MAX_SANITIZED + 1)

LongTexts == {T_scanLong, T_text, T_key}

LongTextUpdates ==
    {EventOf("text", u, "private", t, NoFile) : u \in OneUser, t \in LongTexts}

\* webhook mode with the updates of one user that write the prompt, a long
\* prompt among them, and the text: scan that reads it
NextLong ==
    \/ OnText(1, LongTextUpdates)
    \/ OnDocument(1, PromptDocumentUpdates)
    \/ \E s \in Slots \ {1} : OnText(s, StaleUpdates)
    \/ \E s \in Slots : StepPrompt(s)
    \/ ClearSession

SpecLong == Init /\ [][NextLong]_vars

----------------------------------------------------------------------------
(* utils/parser.ts called on its own: the functions applied to an argument *)

\* the strings over alphabet A of length up to n
Strings(A, n) == UNION {[1..k -> A] : k \in 0..n}

SanitizeChars == {"a", " ", "<", ">"}

\* short inputs, and inputs at the length limit: MAX_SANITIZED - 1 letters
\* and up to MaxBody - 1 characters more
LongTails == Strings({"a", " "}, MaxBody - 1)

SanitizeInputs ==
    Strings(SanitizeChars, MaxBody)
    \cup {Repeat("a", MAX_SANITIZED - 1) \o s : s \in LongTails}

\* the words a message starts with, in several letter cases
Words == {P_scan, <<"S","c","a","n",":">>, P_text, <<"T","E","X","T",":">>,
          P_get, <<"G","e","t",":">>, P_file, <<"F","I","L","E",":">>,
          W_list, <<"L","i","s","t">>, W_slashList, <<"h","i">>, <<>>}

BodyChars == {"a", " ", "\n", "/"}

Bodies == Strings(BodyChars, MaxBody)

Margins == {<<>>, <<" ">>}

ParserInputs == {m \o w \o b : m \in Margins, w \in Words, b \in Bodies}

\* captions at the length limit: MAX_CAPTION - 1 and MAX_CAPTION letters,
\* bare and inside white space
CaptionInputs ==
    {m \o Repeat("a", n) \o m : m \in Margins, n \in {MAX_CAPTION - 1, MAX_CAPTION}}

Inputs == SanitizeInputs \cup ParserInputs \cup CaptionInputs

\* what a call returned
Returned(fn, value) == [fn |-> fn, value |-> value]

InitParser ==
    /\ store = [u \in Users |-> None]
    /\ pending = [u \in Users |-> None]
    /\ tasks = [s \in Slots |-> Idle]
    /\ now = 0
    /\ uploads = 0
    /\ argument \in Inputs
    /\ returned = <<>>

KeptProgram == UNCHANGED <<store, pending, tasks, now, uploads, argument>>

\* sanitize(argument), and sanitize applied to what sanitize returned
Sanitize ==
    /\ Len(returned) < MaxCalls
    /\ \/ /\ returned = <<>>
          /\ returned' = <<Returned("sanitize", sanitize(argument))>>
       \/ /\ returned # <<>>
          /\ returned[1].fn = "sanitize"
          /\ returned' = Append(returned,
                                Returned("sanitize", sanitize(returned[Len(returned)].value)))
    /\ KeptProgram

\* parseMessage(argument)
ParseMessage ==
    /\ returned = <<>>
    /\ returned' = <<Returned("parseMessage", parseMessage(argument))>>
    /\ KeptProgram

\* isFileCaption(argument)
IsFileCaption ==
    /\ returned = <<>>
    /\ returned' = <<Returned("isFileCaption", isFileCaption(argument))>>
    /\ KeptProgram

NextParser ==
    \/ Sanitize
    \/ ParseMessage
    \/ IsFileCaption

SpecParser == InitParser /\ [][NextParser]_vars

\* the results getStats returns: a failure, a body without usage, and usage
\* with the parses used and the limit of the plan
MaxUsed == 27
MaxLimit == 25

UsedValues == 0..MaxUsed

LimitValues == 1..MaxLimit

StatsResultOf(success, item, used, limit) ==
    [success |-> success, item |-> item,
     usage |-> [parsesThisMonth |-> used, parseLimit |-> limit]]

StatsResults ==
    {StatsResultOf(TRUE, TRUE, used, limit) : used \in UsedValues, limit \in LimitValues}
    \cup {StatsResultOf(FALSE, FALSE, 0, 1), StatsResultOf(TRUE, FALSE, 0, 1)}

InitFormatter ==
    /\ store = [u \in Users |-> None]
    /\ pending = [u \in Users |-> None]
    /\ tasks = [s \in Slots |-> Idle]
    /\ now = 0
    /\ uploads = 0
    /\ argument \in StatsResults
    /\ returned = <<>>

\* formatStats(argument)
FormatStats ==
    /\ returned = <<>>
    /\ returned' = <<Returned("formatStats", formatStatsText(argument))>>
    /\ KeptProgram

NextFormatter == FormatStats

SpecFormatter == InitFormatter /\ [][NextFormatter]_vars

----------------------------------------------------------------------------
(* Vocabulary of the properties *)

Running(t) == t.pc \notin {"idle", "done"}
Done(t) == t.pc = "done"
OnlyReply(t, msg, arg) == t.replies = <<Reply(msg, arg)>>

\* the slot's task took a step, or a new update entered the slot
Stepped(s) == tasks'[s] # tasks[s]

\* handleApiKeyInput's test of the credential shape
LooksLikeApiKey(text) == startsWith(text, S_ep) /\ Len(text) >= MIN_KEY_LENGTH

IsCredentialText(ev) == ev.kind = "text" /\ LooksLikeApiKey(trim(ev.text))

IsIntent(ev, types) ==
    ev.kind = "text" /\ ~LooksLikeApiKey(trim(ev.text)) /\ parseMessage(ev.text).type \in types

IsDecisionPress(ev) == ev.kind = "callback" /\ ev.text \in Decisions

\* the events the claims call backend-requiring
NeedsCredential(ev) ==
    \/ IsIntent(ev, {"text", "file", "list", "scan", "get"})
    \/ ev.kind \in {"document", "photo"}
    \/ /\ ev.kind = "callback"
       /\ \/ ev.text \in {D_list, D_status}
          \/ startsWith(ev.text, D_getP)
          \/ startsWith(ev.text, D_refreshP)

CallsOf(t, ops) == {i \in 1..Len(t.calls) : t.calls[i].op \in ops}

DataOps == {"scanFile", "scanText", "listEndpoints", "getEndpoint", "getStats"}

----------------------------------------------------------------------------
(* C1 *)

\* C1: every handled text, document, photo or button event ends with exactly
\* one reply, and never has sent more than one while it is handled.
C1_ExactlyOneReply ==
    \A s \in Slots :
        /\ Len(tasks[s].replies) <= 1
        /\ Done(tasks[s]) => Len(tasks[s].replies) = 1

----------------------------------------------------------------------------
(* C2 *)

\* C2: while getApiKey gives nothing for a user, a task of that user has sent
\* no scanText, scanFile, listEndpoints, getEndpoint or getStats request (only
\* validateApiKey requests), and a finished list/scan/text/get/file intent,
\* status/list/get/refresh button or upload has answered with the
\* missing-credential reply.
C2_NoBackendWithoutCredential ==
    \A s \in Slots :
        LET t == tasks[s]
        IN  (t.pc # "idle" /\ ~Truthy(getApiKey(store, t.ev.user))) =>
                /\ CallsOf(t, DataOps) = {}
                /\ (Done(t) /\ NeedsCredential(t.ev)) => OnlyReply(t, "missingApiKey", <<>>)

C2_Witness ==
    \E s \in Slots :
        /\ Done(tasks[s])
        /\ IsIntent(tasks[s].ev, {"get"})
        /\ ~Truthy(getApiKey(store, tasks[s].ev.user))
        /\ OnlyReply(tasks[s], "missingApiKey", <<>>)

----------------------------------------------------------------------------
(* C3 *)

IsGroupCredentialText(ev) == IsCredentialText(ev) /\ ev.chat # "private"

\* C3: a credential-shaped text in a non-private chat is answered at once with
\* the retry-privately reply, sends no validation request and is not handed to
\* the parser's handlers; and no step of such a task changes the session store.
C3_GroupCredentialRefused ==
    /\ [](\A s \in Slots :
            IsGroupCredentialText(tasks[s].ev) =>
                /\ Done(tasks[s])
                /\ tasks[s].handler = "handleApiKeyInput"
                /\ OnlyReply(tasks[s], "privateOnly", <<>>)
                /\ tasks[s].calls = <<>>)
    /\ [][\A s \in Slots :
            (Stepped(s) /\ (IsGroupCredentialText(tasks[s].ev)
                            \/ IsGroupCredentialText(tasks'[s].ev)))
                => store' = store]_vars

C3_Witness ==
    \E s \in Slots :
        /\ Done(tasks[s])
        /\ IsGroupCredentialText(tasks[s].ev)
        /\ OnlyReply(tasks[s], "privateOnly", <<>>)
        /\ Truthy(getApiKey(store, tasks[s].ev.user))
        /\ getApiKey(store, tasks[s].ev.user) # Some(trim(tasks[s].ev.text))

----------------------------------------------------------------------------
(* C4 *)

IsPrivateCredentialText(ev) == IsCredentialText(ev) /\ ev.chat = "private"

Accepted(t) == IsSome(t.result) /\ Get(t.result).success
Rejected(t) == IsSome(t.result) /\ ~Get(t.result).success

\* C4: a credential-shaped text in a private chat sends exactly one
\* validateApiKey request, for the trimmed text.  When the backend accepted it
\* the finished task has stored it: hasApiKey holds and getApiKey gives the
\* text.  When the backend rejected it the reply is the rejection, and the only
\* step of such a task that changes the store is the save of an accepted key.
C4_CredentialValidatedOnce ==
    /\ [](\A s \in Slots :
            LET t == tasks[s]
                text == trim(t.ev.text)
            IN  IsPrivateCredentialText(t.ev) =>
                    /\ t.calls = <<validateApiKeyRequest(text)>>
                    /\ (Done(t) /\ Accepted(t)) =>
                            /\ OnlyReply(t, "apiKeySaved", <<>>)
                            /\ hasApiKey(store, t.ev.user)
                            /\ getApiKey(store, t.ev.user) = Some(text)
                    /\ (Done(t) /\ Rejected(t)) => OnlyReply(t, "invalidApiKey", <<>>))
    /\ [][\A s \in Slots :
            (Stepped(s) /\ IsPrivateCredentialText(tasks'[s].ev) /\ store' # store)
                => /\ Accepted(tasks'[s])
                   /\ getApiKey(store', tasks'[s].ev.user) = Some(trim(tasks'[s].ev.text))]_vars

C4_Witness ==
    \E s \in Slots :
        /\ Done(tasks[s])
        /\ IsPrivateCredentialText(tasks[s].ev)
        /\ Rejected(tasks[s])
        /\ OnlyReply(tasks[s], "invalidApiKey", <<>>)
        /\ Truthy(getApiKey(store, tasks[s].ev.user))
        /\ getApiKey(store, tasks[s].ev.user) # Some(trim(tasks[s].ev.text))

----------------------------------------------------------------------------
(* C5 *)

\* C5: an uploaded document that needs the yes/no decision is not scanned by
\* the upload handler: its task sends no scanFile request, and once the
\* handler has taken the file it has stored a PendingFile for the user.
C5_DecisionDeferred ==
    \A s \in Slots :
        LET t == tasks[s]
        IN  (t.ev.kind = "document" /\ t.ev.file.needsDecision) =>
                /\ CallsOf(t, {"scanFile"}) = {}
                /\ (Done(t) /\ t.downloads > 0) => IsSome(pending[t.ev.user])

----------------------------------------------------------------------------
(* C6 *)

----------------------------------------------------------------------------
(* C7 *)

\* C7: a decision press that finds no pending file ends with the file-expired
\* reply alone and sends no request; the step in which it finds none changes
\* neither the session store nor the holder and ends the handler.
C7_AbsentPendingFileExpired ==
    /\ [](\A s \in Slots :
            LET t == tasks[s]
            IN  (IsDecisionPress(t.ev) /\ ~IsSome(t.pendingFile)) =>
                    /\ t.calls = <<>>
                    /\ t.pc \in {"done", "getPendingFile"}
                    /\ Done(t) => OnlyReply(t, "fileExpired", <<>>))
    /\ [][\A s \in Slots :
            (IsDecisionPress(tasks[s].ev) /\ At(s, "getPendingFile") /\ Stepped(s)
             /\ ~IsSome(pending[tasks[s].ev.user]))
                => /\ store' = store
                   /\ pending' = pending
                   /\ Done(tasks'[s])
                   /\ OnlyReply(tasks'[s], "fileExpired", <<>>)]_vars

\* a press answered with the file-expired reply after the user's upload was
\* consumed or evicted, the user's credential being stored all along
C7_Witness ==
    \E s \in Slots :
        /\ IsDecisionPress(tasks[s].ev)
        /\ Done(tasks[s])
        /\ OnlyReply(tasks[s], "fileExpired", <<>>)
        /\ uploads > 0
        /\ Truthy(getApiKey(store, tasks[s].ev.user))

----------------------------------------------------------------------------
(* C8 *)

\* C8: the scanFile request of a decision press carries the processing-mode
\* flag on exactly when the payload was openclaw:yes, and the prompt, bytes,
\* filename and mime type of the pending file the press consumed.
C8_ChosenModeSent ==
    \A s \in Slots :
        LET t == tasks[s]
        IN  (IsDecisionPress(t.ev) /\ t.calls # <<>>) =>
                LET req == t.calls[1]
                    f == Get(t.pendingFile)
                IN  /\ req.op = "scanFile"
                    /\ req.isClawdbotTranscript = (t.ev.text = D_yes)
                    /\ req.prompt = f.prompt
                    /\ req.file = FilePart(fromBase64(f.buffer), f.filename, f.mimeType)

----------------------------------------------------------------------------
(* C9 *)

IsScanWithContent(ev) == IsIntent(ev, {"scan"}) /\ Truthy(parseMessage(ev.text).content)

\* C9: a scan intent with content, sent by a user with a credential, persists
\* the sanitized prompt before any request or reply; its one request is
\* scanText with the sanitized prompt and the sanitized content, sent when
\* lastPrompt already is the sanitized prompt; nothing is replied while the
\* request is pending; the one reply reports the request's result; and
\* lastPrompt stays the sanitized prompt whatever the result.
C9_ScanOrder ==
    \A s \in Slots :
        LET t == tasks[s]
            u == t.ev.user
            parsed == parseMessage(t.ev.text)
            p == sanitize(Get(parsed.prompt))
            c == sanitize(Get(parsed.content))
        IN  IsScanWithContent(t.ev) =>
                /\ t.pc \in {"updateSession:get", "updateSession:save"} =>
                        /\ t.updates = setLastPromptUpdates(p)
                        /\ t.calls = <<>>
                        /\ t.replies = <<>>
                /\ t.calls # <<>> =>
                        /\ t.calls = <<scanTextRequest(t.apiKey, p, c)>>
                        /\ getLastPrompt(store, u) = Some(p)
                /\ t.pc = "backend" => t.replies = <<>>
                /\ (Done(t) /\ t.calls # <<>>) =>
                        /\ IsSome(t.result)
                        /\ OnlyReply(t, formatScanResult(scanTextResult(Get(t.result))), <<>>)
                /\ (Done(t) /\ Truthy(getApiKey(store, u))) => t.calls # <<>>

\* the backend failed the scan of a message whose prompt and content both
\* change under sanitize; lastPrompt is the sanitized prompt
C9_Witness ==
    \E s \in Slots :
        LET t == tasks[s]
            parsed == parseMessage(t.ev.text)
        IN  /\ IsScanWithContent(t.ev)
            /\ Done(t)
            /\ Rejected(t)
            /\ sanitize(Get(parsed.prompt)) # Get(parsed.prompt)
            /\ sanitize(Get(parsed.content)) # Get(parsed.content)
            /\ getLastPrompt(store, t.ev.user) = Some(sanitize(Get(parsed.prompt)))
            /\ OnlyReply(t, "scanFailed", <<>>)

----------------------------------------------------------------------------
(* C10 *)

IsScanNoContent(ev) == IsIntent(ev, {"scan"}) /\ ~Truthy(parseMessage(ev.text).content)

----------------------------------------------------------------------------
(* C11 *)

\* the replies that tell the user the request failed
FailureReplies == {"scanFailed", "endpointError"}

\* C11: when apiRequest fails during a scan, get or list request, the handler
\* ends with exactly one reply, that reply reports the failure, and the value
\* the client function returned is the failure result {success: false, error}.
C11_FailureReported ==
    \A s \in Slots :
        LET t == tasks[s]
        IN  (Done(t) /\ Rejected(t)
             /\ CallsOf(t, {"scanFile", "scanText", "listEndpoints", "getEndpoint"}) # {}) =>
                /\ Len(t.replies) = 1
                /\ t.replies[1].msg \in FailureReplies
                /\ clientResult(t.calls[1].op, Get(t.result)) = ScanResult(FALSE, FALSE, TRUE)

----------------------------------------------------------------------------
(* C12 *)
\* the step in which the updateSession of slot s saves
Saves(s) == At(s, "updateSession:save") /\ tasks'[s].pc # "updateSession:save"

\* the task has finished and its updateSession has saved
Saved(t) == Done(t) /\ t.updates # EmptySession

\* C12: whenever an updateSession saves, the record in the store becomes the
\* merge of the copy that updateSession read and its own updates, whatever
\* another update of the same user has saved since that copy was read: the
\* later save wins, and a stale copy overwrites the earlier writer's change.
C12_LastWriterWins ==
    [][\A s \in Slots :
          Saves(s) =>
              getSession(store', tasks[s].ev.user)
                  = mergeSession(tasks[s].current, tasks[s].updates)]_vars

\* two updates of one user have read the same record, one has saved its
\* change, and the other is about to save a copy without that change
C12_Witness ==
    \E s, r \in Slots :
        /\ s # r
        /\ tasks[s].ev.user = tasks[r].ev.user
        /\ At(s, "updateSession:save")
        /\ Saved(tasks[r])
        /\ tasks[r].current = tasks[s].current
        /\ getSession(store, tasks[r].ev.user) = tasks[r].updated
        /\ \E f \in SessionFields :
              /\ IsSome(tasks[r].updates[f])
              /\ tasks[s].updated[f] # tasks[r].updates[f]

----------------------------------------------------------------------------
(* C13 *)
\* the users whose stored record the step changes
Written == {u \in Users : store'[u] # store[u]}

\* C13: a step of the handler of an update of user A, and a clearSession of
\* A, changes the stored record of no user other than A.
C13_OtherUsersUnchanged ==
    [][/\ \A s \in Slots : Stepped(s) => Written \subseteq {tasks'[s].ev.user}
       /\ Cardinality(Written) <= 1]_vars

\* the updates of two users have both saved, and each user has a record
C13_Witness ==
    \E s, r \in Slots :
        /\ tasks[s].ev.user # tasks[r].ev.user
        /\ Saved(tasks[s]) /\ Saved(tasks[r])
        /\ IsSome(store[tasks[s].ev.user])
        /\ IsSome(store[tasks[r].ev.user])

----------------------------------------------------------------------------
(* C14 *)
\* C14: when updateSession saves updates that name a non-empty credential c,
\* getSession of that user then returns apiKey = c: decrypt gives back what
\* encrypt was given, whichever iv encrypt drew.
C14_RoundTrip ==
    [][\A s \in Slots :
          (Saves(s) /\ Truthy(tasks[s].updates.apiKey)) =>
              getSession(store', tasks[s].ev.user).apiKey = tasks[s].updates.apiKey]_vars

\* an updateSession has saved a credential, the store holds it encrypted and
\* getSession returns it
C14_Witness ==
    \E s \in Slots :
        LET t == tasks[s]
        IN  /\ Saved(t)
            /\ Truthy(t.updates.apiKey)
            /\ IsSome(store[t.ev.user])
            /\ IsSome(Get(store[t.ev.user]).apiKey)
            /\ Get(Get(store[t.ev.user]).apiKey).body # Get(t.updates.apiKey)
            /\ getSession(store, t.ev.user).apiKey = t.updates.apiKey

----------------------------------------------------------------------------
(* C15 *)
\* the field f of the updates is named
Named(updates, f) == IsSome(updates[f])

\* C15: when updateSession saves, the record it returns has, for every field
\* the updates name, the value of the updates, and for every other field the
\* value of the record it read; the store then holds that record, with the
\* credential encrypted, and the record returned holds it in plaintext.
C15_ShallowMerge ==
    [][\A s \in Slots :
          Saves(s) =>
              LET t == tasks[s]
                  u == t.ev.user
              IN  /\ \A f \in SessionFields :
                        t.updated[f] = IF Named(t.updates, f) THEN t.updates[f]
                                                              ELSE t.current[f]
                  /\ getSession(store', u) = t.updated
                  /\ Truthy(t.updated.apiKey) =>
                        \E iv \in IVs :
                            Get(store'[u]).apiKey = Some(encrypt(Get(t.updated.apiKey), iv))
                  /\ Get(store'[u]).lastPrompt = t.updated.lastPrompt
                  /\ Get(store'[u]).linkedAt = t.updated.linkedAt]_vars

\* an updateSession that names the prompt only has saved: the record in the
\* store has the new prompt and the credential it had
C15_Witness ==
    \E s \in Slots :
        LET t == tasks[s]
        IN  /\ Saved(t)
            /\ Named(t.updates, "lastPrompt") /\ ~Named(t.updates, "apiKey")
            /\ Truthy(t.current.apiKey)
            /\ getSession(store, t.ev.user).lastPrompt = t.updates.lastPrompt
            /\ getSession(store, t.ev.user).apiKey = t.current.apiKey

----------------------------------------------------------------------------
(* C16 *)
\* the stored record of user u holds a credential that does not decrypt
Undecryptable(u) ==
    /\ IsSome(store[u])
    /\ IsSome(Get(store[u]).apiKey)
    /\ decryptThrows(Get(Get(store[u]).apiKey))

\* C16: when the stored credential of a user does not decrypt, getSession
\* returns the stored record without the credential: apiKey is absent,
\* lastPrompt and linkedAt are the stored ones.
C16_UndecryptableCleared ==
    \A u \in Users :
        Undecryptable(u) =>
            getSession(store, u) =
                Session(None, Get(store[u]).lastPrompt, Get(store[u]).linkedAt)

\* a record with a prompt and a link date whose credential does not decrypt
C16_Witness ==
    \E u \in Users :
        /\ Undecryptable(u)
        /\ IsSome(Get(store[u]).lastPrompt)
        /\ IsSome(Get(store[u]).linkedAt)

----------------------------------------------------------------------------
(* C17 *)
\* the step in which the handler of slot s gets the answer of getApiKey
ReadsApiKey(s) == At(s, "getApiKey") /\ Stepped(s)

----------------------------------------------------------------------------
(* C18 *)
\* user u has no stored record
Absent(u) == ~IsSome(store[u])

\* C18: for a user without a stored record getSession returns the empty
\* session and hasApiKey is false; and after clearSession the user it was
\* called for has no record: no credential, no prompt, no link date.
C18_AbsentIsEmpty ==
    /\ [](\A u \in Users :
            Absent(u) => getSession(store, u) = EmptySession /\ ~hasApiKey(store, u))
    /\ [][ClearSession =>
             \A u \in Written :
                 /\ Absent(u)'
                 /\ getSession(store', u) = EmptySession
                 /\ ~hasApiKey(store', u)]_vars

\* the record that a credential submission and a scan of a user had written
\* is absent again, and another user's record is there
C18_Witness ==
    \E s, r \in Slots :
        /\ s # r
        /\ tasks[s].ev.user = tasks[r].ev.user
        /\ Saved(tasks[s]) /\ Saved(tasks[r])
        /\ Absent(tasks[s].ev.user)
        /\ \E u \in Users : ~Absent(u)

----------------------------------------------------------------------------
(* C19 *)
\* the credentials and the prompts that the updates of the session
\* specification submit, and the dates a credential is linked at
Credentials == {trim(t) : t \in RotationTexts}

Prompts == {sanitize(Get(parseMessage(ev.text).prompt)) : ev \in PromptUpdates}

Dates == 0..MaxTime

\* C19: in every reachable state every stored record holds its credential,
\* when it has one, as the iv and the ciphertext of a submitted credential
\* under that iv, and holds lastPrompt and linkedAt as they were given.
C19_EncryptedAtRest ==
    \A u \in Users :
        ~Absent(u) =>
            LET rec == Get(store[u])
            IN  /\ IsSome(rec.apiKey) =>
                      /\ Get(rec.apiKey).iv \in IVs
                      /\ \E c \in Credentials :
                            Get(rec.apiKey).body = cipher(c, Get(rec.apiKey).iv)
                /\ IsSome(rec.lastPrompt) => Get(rec.lastPrompt) \in Prompts
                /\ IsSome(rec.linkedAt) => Get(rec.linkedAt) \in Dates

\* a stored record with an encrypted credential, a prompt and a link date
C19_Witness ==
    \E u \in Users :
        /\ ~Absent(u)
        /\ IsSome(Get(store[u]).apiKey)
        /\ Get(Get(store[u]).apiKey).intact
        /\ IsSome(Get(store[u]).lastPrompt)
        /\ IsSome(Get(store[u]).linkedAt)

----------------------------------------------------------------------------
(* C20 *)
\* the save of slot s can store the credential c as its ciphertext under iv
CanStore(s, c, iv) ==
    ENABLED (/\ UpdateSessionSave(s)
             /\ Get(store'[tasks[s].ev.user]).apiKey
                    = Some([iv |-> iv, body |-> cipher(c, iv), intact |-> TRUE]))

----------------------------------------------------------------------------
(* C21 *)
\* C21: linkedAt is set once: as long as a user's record is there, a link
\* date that is stored stays the one stored, whatever is submitted later.
C21_LinkedAtSetOnce ==
    [][\A u \in Users :
          (/\ ~Absent(u)
           /\ IsSome(Get(store[u]).linkedAt)
           /\ IsSome(store'[u])) =>
              Get(store'[u]).linkedAt = Get(store[u]).linkedAt]_vars

----------------------------------------------------------------------------
(* C22 *)
\* the prompt stored for user u in store st; absent without a record
StoredPrompt(st, u) == IF IsSome(st[u]) THEN Get(st[u]).lastPrompt ELSE None

\* the handlers that call setLastPrompt: a scan: message, a captioned upload
PromptSetters == {"handleScanMessage", "handleDocument", "handlePhoto"}

\* the save of slot s is the overwrite by a setLastPrompt of user u
OverwritesPrompt(s, u) ==
    /\ Saves(s)
    /\ tasks[s].ev.user = u
    /\ tasks[s].handler \in PromptSetters
    /\ StoredPrompt(store', u) = Some(tasks[s].sanitizedPrompt)

\* the save of slot s is one of a setApiKey of user u that read the record
\* before the stored prompt was written, and writes the prompt it read
WritesStalePrompt(s, u) ==
    /\ Saves(s)
    /\ tasks[s].ev.user = u
    /\ tasks[s].handler = "handleApiKeyInput"
    /\ tasks[s].current.lastPrompt # StoredPrompt(store, u)
    /\ StoredPrompt(store', u) = tasks[s].current.lastPrompt

\* C22 as stated: the stored lastPrompt of a user changes or becomes absent
\* only by the overwrite of a scan: message or a captioned upload, or by clear;
\* every other event of the user leaves it as it was.
C22_PromptKept ==
    [][\A u \in Users :
          StoredPrompt(store', u) # StoredPrompt(store, u) =>
              \/ ClearSession
              \/ \E s \in Slots : OverwritesPrompt(s, u)]_vars

\* C22 amended: the stored lastPrompt changes only by such an overwrite, by
\* clear, or by the save of a credential submission that interleaved with
\* the overwrite and writes back the prompt it had read before; a credential
\* submission that read the record as it is stored leaves the prompt as it
\* was, and so does every event that saves nothing.
C22_PromptKeptUnlessStale ==
    [][\A u \in Users :
          StoredPrompt(store', u) # StoredPrompt(store, u) =>
              \/ ClearSession
              \/ \E s \in Slots : OverwritesPrompt(s, u)
              \/ \E s \in Slots : WritesStalePrompt(s, u)]_vars

\* a credential submission that read the stored prompt has saved, and the
\* prompt is stored as it was; a list, get, text:, file: or status request
\* of the user has finished meanwhile
C22_Witness ==
    \E s, r \in Slots :
        /\ s # r
        /\ tasks[s].handler = "handleApiKeyInput"
        /\ Saved(tasks[s])
        /\ IsSome(tasks[s].current.lastPrompt)
        /\ StoredPrompt(store, tasks[s].ev.user) = tasks[s].current.lastPrompt
        /\ Done(tasks[r])
        /\ tasks[r].handler \notin PromptSetters \cup {"handleApiKeyInput"}

----------------------------------------------------------------------------
(* C23 *)
\* text c occurs in text s
Contains(s, c) ==
    \E i \in 0..(Len(s) - Len(c)) : SubSeq(s, i + 1, i + Len(c)) = c

\* the credentials users submit: the texts handleApiKeyInput takes for a key
SubmittedCredentials ==
    {trim(ev.text) : ev \in {e \in TextUpdates : LooksLikeApiKey(trim(e.text))}}

\* C23: no reply of any handler, in any state, quotes a credential: the text
\* a reply interpolates contains none of the credentials that are submitted
\* or stored, in the replies to an accepted, a rejected and a group-chat
\* submission, which interpolate nothing, as in every other reply.
C23_NoCredentialInReply ==
    \A s \in Slots :
        \A i \in 1..Len(tasks[s].replies) :
            /\ \A c \in SubmittedCredentials : ~Contains(tasks[s].replies[i].arg, c)
            /\ IsCredentialText(tasks[s].ev) => tasks[s].replies[i].arg = <<>>

\* a reply that interpolates user text has been sent to a user whose
\* credential is stored
C23_Witness ==
    \E s \in Slots :
        /\ Done(tasks[s])
        /\ hasApiKey(store, tasks[s].ev.user)
        /\ Get(getApiKey(store, tasks[s].ev.user)) \in SubmittedCredentials
        /\ \E i \in 1..Len(tasks[s].replies) : tasks[s].replies[i].arg # <<>>

----------------------------------------------------------------------------
(* C24 *)
\* the value is one that sanitize returns: sanitize leaves it as it is
IsSanitized(v) == sanitize(v) = v

\* the path of the message in the request getEndpoint sends
RequestedPath(q) == SliceFrom(q.path, Len(API_ENDPOINTS))

\* C24: every user-supplied value that goes into a backend request or into a
\* reply has passed through sanitize: the prompt and the content of a scan,
\* the caption of an upload, and the path of a get: or file: message.
C24_AllSanitized ==
    \A s \in Slots :
        LET t == tasks[s]
        IN  /\ \A i \in 1..Len(t.calls) :
                  /\ IsSanitized(t.calls[i].prompt)
                  /\ IsSanitized(t.calls[i].content)
                  /\ t.calls[i].op = "getEndpoint" => IsSanitized(RequestedPath(t.calls[i]))
            /\ \A i \in 1..Len(t.replies) : IsSanitized(t.replies[i].arg)

----------------------------------------------------------------------------
(* C25 *)
\* C25: sanitize is idempotent: whenever sanitize has been applied to what
\* sanitize returned, it returned the same text again.
C25_Idempotent ==
    \A i \in 2..Len(returned) :
        returned[i].fn = "sanitize" => returned[i].value = returned[i - 1].value

----------------------------------------------------------------------------
(* C26 *)
\* neither an angle bracket nor white space
IsInk(c) == NotAngle(c) /\ ~IsSpace(c)

\* C26: what sanitize returns for x is x without its angle brackets, then
\* trimmed, then cut to its first 1000 characters: it holds no angle bracket
\* and at most 1000 characters, and when nothing is cut it is a part of x
\* without its angle brackets that has no outer white space and all the
\* other characters of x.
C26_SanitizeResult ==
    (returned # <<>> /\ returned[1].fn = "sanitize") =>
        LET v == returned[1].value
            stripped == stripAngles(argument)
        IN  /\ v = SliceTo(trim(stripped), MAX_SANITIZED)
            /\ \A i \in 1..Len(v) : v[i] \notin {"<", ">"}
            /\ Len(v) <= MAX_SANITIZED
            /\ Len(trim(stripped)) <= MAX_SANITIZED =>
                  /\ Contains(stripped, v)
                  /\ v # <<>> => ~IsSpace(v[1]) /\ ~IsSpace(v[Len(v)])
                  /\ SelectSeq(v, IsInk) = SelectSeq(argument, IsInk)

\* sanitize has returned a text for an argument that holds an angle bracket
\* between letters and white space at its end
C26_Witness ==
    /\ returned # <<>>
    /\ returned[1].fn = "sanitize"
    /\ \E i \in 2..Len(argument) : argument[i] \in {"<", ">"} /\ argument[i - 1] = "a"
    /\ IsSpace(argument[Len(argument)])
    /\ returned[1].value # <<>>

----------------------------------------------------------------------------
(* C27 *)
\* the six types of a ParsedMessage
MessageTypes == {"list", "scan", "text", "get", "file", "unknown"}

Prefixes == {P_scan, P_text, P_get, P_file}

\* the trimmed text is neither the list command nor begins with a prefix
NoRule(text) ==
    LET lower == toLowerCase(trim(text))
    IN  /\ lower \notin {W_list, W_slashList}
        /\ \A p \in Prefixes : ~startsWith(lower, p)

\* C27: parseMessage returns for every text a result of exactly one of the
\* six types, with the fields of that type and no other; a text that is not
\* the list command and begins with no prefix is classified unknown.
C27_ParseTotal ==
    (returned # <<>> /\ returned[1].fn = "parseMessage") =>
        LET v == returned[1].value
        IN  /\ v.type \in MessageTypes
            /\ NoRule(argument) => v.type = "unknown"
            /\ IsSome(v.prompt) <=> v.type = "scan"
            /\ IsSome(v.content) => v.type \in {"scan", "text"}
            /\ v.type = "text" => IsSome(v.content)
            /\ IsSome(v.path) <=> v.type \in {"get", "file"}

\* parseMessage has classified a text that is not empty and begins with no
\* prefix as unknown
C27_Witness ==
    /\ returned # <<>>
    /\ returned[1].fn = "parseMessage"
    /\ NoRule(argument)
    /\ trim(argument) # <<>>
    /\ returned[1].value.type = "unknown"

----------------------------------------------------------------------------
(* C28 *)
\* the trimmed text begins with the prefix, in any letter case
BeginsWith(text, prefix) == startsWith(toLowerCase(trim(text)), prefix)

\* the text after the prefix of the trimmed text
AfterPrefix(text, prefix) == SliceFrom(trim(text), Len(prefix))

\* the first line of s, trimmed
FirstLine(s) == trim(SliceTo(s, NewlineAt(s, 1) - 1))

\* the lines of s after the first, trimmed as one block
OtherLines(s) == trim(SliceFrom(s, NewlineAt(s, 1)))

\* C28: for every text whose trimmed form begins with scan:, parseMessage
\* returns type scan, the prompt is the trimmed first line after the prefix,
\* and the content is the remaining lines trimmed as one block, absent when
\* they hold nothing but white space.
C28_ScanGrammar ==
    (returned # <<>> /\ returned[1].fn = "parseMessage" /\ BeginsWith(argument, P_scan)) =>
        LET v == returned[1].value
            after == AfterPrefix(argument, P_scan)
        IN  /\ v.type = "scan"
            /\ v.prompt = Some(FirstLine(after))
            /\ v.content = IF OtherLines(after) = <<>> THEN None ELSE Some(OtherLines(after))

----------------------------------------------------------------------------
(* C29 *)
PathPrefixes == {P_get, P_file}

\* the type parseMessage returns for a path prefix
TypeOf(prefix) == IF prefix = P_get THEN "get" ELSE "file"

\* C29: for every text that begins with get: or file:, parseMessage returns
\* type get or file, and the path is the trimmed text after the prefix, with
\* a '/' put before it exactly when it does not begin with one: the path
\* always begins with '/', and only one '/' when the text had it already.
C29_PathGrammar ==
    \A p \in PathPrefixes :
        (returned # <<>> /\ returned[1].fn = "parseMessage" /\ BeginsWith(argument, p)) =>
            LET v == returned[1].value
                rest == trim(AfterPrefix(argument, p))
            IN  /\ v.type = TypeOf(p)
                /\ v.path = Some(IF startsWith(rest, <<"/">>) THEN rest ELSE <<"/">> \o rest)

----------------------------------------------------------------------------
(* C30 *)
\* the trimmed text begins with a command prefix, is the list command, or
\* begins with '/'
IsCommandText(text) ==
    \/ \E p \in Prefixes : BeginsWith(text, p)
    \/ toLowerCase(trim(text)) = W_list
    \/ BeginsWith(text, <<"/">>)

\* C30: isFileCaption is false for a text that begins with scan:, text:,
\* get: or file: in any letter case, is the list command or begins with
\* '/'; for every other text it is true exactly when the trimmed text has
\* more than 0 and fewer than 100 characters: 99 are accepted, 100 are not.
C30_FileCaption ==
    (returned # <<>> /\ returned[1].fn = "isFileCaption") =>
        LET v == returned[1].value
            n == Len(trim(argument))
        IN  /\ IsCommandText(argument) => v = FALSE
            /\ ~IsCommandText(argument) => (v <=> (n > 0 /\ n < MAX_CAPTION))
            /\ (~IsCommandText(argument) /\ n = MAX_CAPTION - 1) => v = TRUE
            /\ n = MAX_CAPTION => v = FALSE

\* isFileCaption has accepted a caption of 99 characters inside white space
C30_Witness ==
    /\ returned # <<>>
    /\ returned[1].fn = "isFileCaption"
    /\ Len(trim(argument)) = MAX_CAPTION - 1
    /\ Len(argument) > MAX_CAPTION
    /\ returned[1].value = TRUE

----------------------------------------------------------------------------
(* C31 *)
\* the trimmed, lower-cased text is 'list' or '/list'
IsListText(text) == toLowerCase(trim(text)) \in {W_list, W_slashList}

\* C31: parseMessage returns type list exactly for the texts whose trimmed,
\* lower-cased form is 'list' or '/list': for those whatever prefix rule
\* comes after, and for no other text.
C31_ListExactly ==
    (returned # <<>> /\ returned[1].fn = "parseMessage") =>
        (returned[1].value.type = "list" <=> IsListText(argument))

\* parseMessage has returned list for /list, and the text had white space
\* around it
C31_Witness ==
    /\ returned # <<>>
    /\ returned[1].fn = "parseMessage"
    /\ returned[1].value.type = "list"
    /\ toLowerCase(trim(argument)) = W_slashList
    /\ trim(argument) # argument

----------------------------------------------------------------------------
(* C32 *)
\* C32: for every text whose trimmed form begins with text:, in any letter
\* case, parseMessage returns type text, the content is the trimmed text
\* after the prefix with its inner newlines, and there is no prompt and no
\* path.
C32_TextGrammar ==
    (returned # <<>> /\ returned[1].fn = "parseMessage" /\ BeginsWith(argument, P_text)) =>
        LET v == returned[1].value
        IN  /\ v.type = "text"
            /\ v.content = Some(trim(AfterPrefix(argument, P_text)))
            /\ v.prompt = None
            /\ v.path = None

----------------------------------------------------------------------------
(* C33 *)
\* C33: a text: message of a user with a credential sends one scanText with
\* the lastPrompt of the session and the sanitized content, and only when a
\* lastPrompt is remembered; without one it sends nothing and its one reply
\* says that no prompt is set.  No step of it changes the user's session.
C33_TextScan ==
    /\ [](\A s \in Slots :
            LET t == tasks[s]
                u == t.ev.user
                remembered == getLastPrompt(store, u)
                c == sanitize(Get(parseMessage(t.ev.text).content))
            IN  IsIntent(t.ev, {"text"}) =>
                    /\ t.calls # <<>> =>
                          /\ Truthy(getApiKey(store, u))
                          /\ Truthy(remembered)
                          /\ t.calls = <<scanTextRequest(Get(getApiKey(store, u)),
                                                         Get(remembered), c)>>
                    /\ (Done(t) /\ Truthy(getApiKey(store, u))) =>
                          IF Truthy(remembered)
                          THEN /\ t.calls # <<>>
                               /\ IsSome(t.result)
                               /\ OnlyReply(t, formatScanResult(scanTextResult(Get(t.result))), <<>>)
                          ELSE /\ t.calls = <<>>
                               /\ OnlyReply(t, "noPromptSet", <<>>))
    /\ [][\A s \in Slots :
            (Stepped(s) /\ IsIntent(tasks'[s].ev, {"text"})) =>
                getSession(store', tasks'[s].ev.user) = getSession(store, tasks'[s].ev.user)]_vars

\* a text: scan has ended: its request carried the remembered prompt and the
\* content without its angle bracket, and the prompt is still remembered
C33_Witness ==
    \E s \in Slots :
        LET t == tasks[s]
            content == Get(parseMessage(t.ev.text).content)
        IN  /\ IsIntent(t.ev, {"text"})
            /\ Done(t)
            /\ Len(t.calls) = 1
            /\ sanitize(content) # content
            /\ t.calls[1].content = sanitize(content)
            /\ Some(t.calls[1].prompt) = getLastPrompt(store, t.ev.user)

----------------------------------------------------------------------------
(* C34 *)
\* the step in which the setLastPrompt of slot s saves
SavesPrompt(s) == Saves(s) /\ tasks[s].handler \in PromptSetters

\* the credential of a session: the key and the date it was linked
CredentialOf(session) == <<session.apiKey, session.linkedAt>>

\* C34 as stated: the save of a setLastPrompt leaves the apiKey and the
\* linkedAt of the user as they were stored, also when a credential
\* submission of the same user has saved since the record was read.
C34_CredentialKept ==
    [][\A s \in Slots :
          SavesPrompt(s) =>
              CredentialOf(getSession(store', tasks[s].ev.user))
                  = CredentialOf(getSession(store, tasks[s].ev.user))]_vars

\* C34 amended: the save of a setLastPrompt stores the apiKey and the linkedAt
\* that its updateSession read.  They are the stored ones, and the credential
\* stays as it was, unless another event of the user has changed them since
\* the record was read; then the save puts back the credential it had read.
C34_CredentialKeptUnlessStale ==
    [][\A s \in Slots :
          SavesPrompt(s) =>
              LET u == tasks[s].ev.user
                  read == CredentialOf(tasks[s].current)
                  before == CredentialOf(getSession(store, u))
                  after == CredentialOf(getSession(store', u))
              IN  /\ after = read
                  /\ after # before => read # before]_vars

\* a scan: message has saved its prompt after a credential submission of
\* the same user had saved a newer credential: the stored apiKey is the one
\* the scan had read, not the newer one
C34_Witness ==
    \E s, r \in Slots :
        /\ s # r
        /\ tasks[s].ev.user = tasks[r].ev.user
        /\ tasks[r].handler \in PromptSetters
        /\ Saved(tasks[r])
        /\ tasks[s].handler = "handleApiKeyInput"
        /\ Saved(tasks[s])
        /\ getSession(store, tasks[r].ev.user) = tasks[r].updated
        /\ IsSome(tasks[r].current.apiKey)
        /\ tasks[r].current.apiKey # tasks[s].updates.apiKey

----------------------------------------------------------------------------
(* C35 *)
IsUpload(ev) == ev.kind \in {"document", "photo"}

\* the trimmed caption is there and isFileCaption accepts it
HasUsableCaption(ev) == trim(ev.text) # <<>> /\ isFileCaption(trim(ev.text))

\* the upload passes the size test that comes before the prompt is chosen
WithinSize(ev) == ~(ev.file.size # 0 /\ ev.file.size > MAX_FILE_SIZE)

\* C35: an upload within the size limit, from a user with a credential.  With
\* a usable caption the prompt of the download and of the scan is the
\* sanitized caption, and it is stored as lastPrompt before the download; with
\* no usable caption the prompt is the stored lastPrompt and no step changes
\* the session.  When the prompt so chosen is empty or absent there is no
\* download and no request, and the one reply asks for a caption; otherwise
\* the file is downloaded, and every request is one scanFile with the prompt.
C35_UploadPrompt ==
    /\ [](\A s \in Slots :
            LET t == tasks[s]
                u == t.ev.user
                stored == getLastPrompt(store, u)
                chosen == IF HasUsableCaption(t.ev)
                          THEN Some(sanitize(trim(t.ev.text))) ELSE stored
            IN  (IsUpload(t.ev) /\ WithinSize(t.ev)) =>
                    /\ (t.pc = "download" \/ t.downloads > 0 \/ t.calls # <<>>) =>
                          /\ Truthy(chosen)
                          /\ t.prompt = Get(chosen)
                          /\ stored = chosen
                    /\ t.calls # <<>> =>
                          /\ Len(t.calls) = 1
                          /\ t.calls[1].op = "scanFile"
                          /\ t.calls[1].prompt = Get(chosen)
                          /\ t.downloads = 1
                    /\ (Done(t) /\ Truthy(getApiKey(store, u))) =>
                          IF Truthy(chosen)
                          THEN t.downloads = 1
                          ELSE /\ t.downloads = 0
                               /\ t.calls = <<>>
                               /\ OnlyReply(t, "needCaption", <<>>)
                               /\ HasUsableCaption(t.ev) => stored = chosen)
    /\ [][\A s \in Slots :
            (Stepped(s) /\ IsUpload(tasks'[s].ev)) =>
                LET ev == tasks'[s].ev
                    before == getSession(store, ev.user)
                    after == getSession(store', ev.user)
                IN  after # before =>
                        /\ HasUsableCaption(ev)
                        /\ WithinSize(ev)
                        /\ tasks'[s].downloads = 0
                        /\ after = [before EXCEPT !.lastPrompt = Some(sanitize(trim(ev.text)))]]_vars

\* a captioned upload has been scanned with the caption without its angle
\* brackets and white space, and that prompt is the stored lastPrompt
C35_Witness ==
    \E s \in Slots :
        LET t == tasks[s]
            caption == trim(t.ev.text)
        IN  /\ IsUpload(t.ev)
            /\ HasUsableCaption(t.ev)
            /\ sanitize(caption) # caption
            /\ Done(t)
            /\ Len(t.calls) = 1
            /\ t.calls[1].prompt = sanitize(caption)
            /\ getLastPrompt(store, t.ev.user) = Some(sanitize(caption))

----------------------------------------------------------------------------
(* C36 *)
ScanOps == {"scanText", "scanFile"}

----------------------------------------------------------------------------
(* C37 *)
\* what every result of sanitize has: no angle bracket, at most 1000 characters
IsSanitizeOutput(v) ==
    /\ \A i \in 1..Len(v) : NotAngle(v[i])
    /\ Len(v) <= MAX_SANITIZED

\* C37: in every reachable state the stored lastPrompt of every user has no
\* angle bracket and at most 1000 characters, and so has the prompt of every
\* request a text: scan sends.
C37_StoredPromptSanitized ==
    /\ \A u \in Users :
          IsSome(getLastPrompt(store, u)) => IsSanitizeOutput(Get(getLastPrompt(store, u)))
    /\ \A s \in Slots :
          tasks[s].handler = "handleTextScanMessage" =>
              \A i \in CallsOf(tasks[s], ScanOps) : IsSanitizeOutput(tasks[s].calls[i].prompt)

\* a text: scan has sent the stored prompt, which is the 1000 characters
\* sanitize kept of a longer prompt with an angle bracket
C37_Witness ==
    \E s \in Slots :
        LET t == tasks[s]
        IN  /\ t.handler = "handleTextScanMessage"
            /\ Len(t.calls) = 1
            /\ Len(t.calls[1].prompt) = MAX_SANITIZED
            /\ getLastPrompt(store, t.ev.user) = Some(sanitize(Get(parseMessage(T_scanLong).prompt)))
            /\ t.calls[1].prompt = sanitize(Get(parseMessage(T_scanLong).prompt))

----------------------------------------------------------------------------
(* C38 *)
\* C38: every text that isFileCaption accepts is a text for which
\* parseMessage returns type unknown: no text is both a usable caption of an
\* upload and a command.
C38_CaptionIsNoCommand ==
    (returned # <<>> /\ returned[1].fn = "isFileCaption" /\ returned[1].value) =>
        parseMessage(argument).type = "unknown"

\* isFileCaption has accepted a text that begins like a command word and has
\* white space around it
C38_Witness ==
    /\ returned # <<>>
    /\ returned[1].fn = "isFileCaption"
    /\ returned[1].value
    /\ startsWith(toLowerCase(trim(argument)), W_list)
    /\ trim(argument) # argument
    /\ parseMessage(argument).type = "unknown"

----------------------------------------------------------------------------
(* C39 *)
\* a non-empty text with no white space at either end and no newline
IsOneTrimmedLine(v) ==
    /\ v # <<>>
    /\ ~IsSpace(v[1])
    /\ ~IsSpace(v[Len(v)])
    /\ \A i \in 1..Len(v) : v[i] # "\n"

\* C39: whenever parseMessage returns type scan the prompt is there and is a
\* non-empty text with no white space at either end and no newline, and
\* whenever it returns type text the content is there and is not empty.
C39_NonEmptyFields ==
    (returned # <<>> /\ returned[1].fn = "parseMessage") =>
        LET v == returned[1].value
        IN  /\ v.type = "scan" => IsSome(v.prompt) /\ IsOneTrimmedLine(Get(v.prompt))
            /\ v.type = "text" => IsSome(v.content) /\ Get(v.content) # <<>>

\* parseMessage has returned a scan with content for a text whose first
\* line after the prefix ends with white space
C39_Witness ==
    /\ returned # <<>>
    /\ returned[1].fn = "parseMessage"
    /\ returned[1].value.type = "scan"
    /\ IsSome(returned[1].value.content)
    /\ IsOneTrimmedLine(Get(returned[1].value.prompt))
    /\ LET after == AfterPrefix(argument, P_scan)
           nl == NewlineAt(after, 1)
       IN  /\ nl > 2
           /\ nl < Len(after)
           /\ IsSpace(after[nl - 1])

----------------------------------------------------------------------------
(* C40 *)
\* the number of filled cells of a progress bar
FilledCells(bar) == Cardinality({i \in 1..Len(bar) : bar[i] = CellFilled})

\* C40: for every successful stats result with usage, used >= 0 and
\* limit > 0, formatStats returns its text and throws nothing; the percentage
\* is round(used / limit * 100), the progress bar has exactly 10 cells, and
\* round(percent / 10) of them are filled, also when used is above limit.
C40_ProgressBar ==
    (/\ returned # <<>>
     /\ returned[1].fn = "formatStats"
     /\ argument.success
     /\ argument.item) =>
        LET v == returned[1].value
            percent == Round(argument.usage.parsesThisMonth * 100, argument.usage.parseLimit)
        IN  /\ v.msg = "stats"
            /\ v.usagePercent = percent
            /\ v.progressBar # RangeError
            /\ Len(Get(v.progressBar)) = BAR_CELLS
            /\ FilledCells(Get(v.progressBar)) = Round(percent, 10)

====
